---- MODULE Spec2Model ----
(***************************************************************************)
(* PDF-to-Word pipeline of pdfbull (client pdfService): the content        *)
(* extractor extractContentFromPdf and the package assembler               *)
(* createDocxFromContent, as state machines; and the file cleanup of the   *)
(* server's mergeController and compressController (cleanupFiles).         *)
(*                                                                         *)
(* Numbers.  Lengths (x, y, width, height, fontSize, the e and f entries   *)
(* of a matrix) are fixed-point decimals counted in units of 1/PT point,   *)
(* so a rounding such as Math.round(width * 12700) is a real rounding.     *)
(* The a, b, c, d entries of a matrix are plain integers (scale factors).  *)
(* Arithmetic is exact: IEEE rounding error is not modelled.               *)
(*                                                                         *)
(* Environment.  The libraries are loaded (window.pdfjsLib, window.JSZip)   *)
(* and getDocument has answered; what PDF.js answers page by page is the   *)
(* input, its rejections included.  On the server, what the file system    *)
(* answers to each unlink is an input as well.                             *)
(*                                                                         *)
(* Optional fields.  A field a JavaScript object may lack is a sequence:   *)
(* Absent (<<>>, undefined) or Some(v) (<<v>>).  Strings that the code     *)
(* inspects character by character are sequences of one-character strings.*)
(***************************************************************************)
EXTENDS Integers, Sequences, FiniteSets, TLC

\* ------------------------------------------------------------------ numbers

\* Units per point of the fixed-point lengths (even, so halves are exact).
PT == 10 ^ 5

Abs(n) == IF n < 0 THEN -n ELSE n

\* Math.round(n * m / PT) for a length n and an integer factor m: the nearest
\* integer, halves rounded towards +Infinity (floor(x + 1/2)).  The whole
\* points are multiplied apart from the fraction to stay inside 32 bits.
MulRound(n, m) == m * (n \div PT) + ((m * (n % PT) + (PT \div 2)) \div PT)

Absent == << >>
Some(v) == << v >>

\* ------------------------------------------------------------------ items

\* A DocContentItem.  src is not a field of the code's object: it records the
\* page the item was extracted from (0 for an item handed to the assembler
\* directly).
Item(type, x, y, text, imageData, width, height, extension, fontSize, isBold, isItalic, src) ==
  [type |-> type, x |-> x, y |-> y, text |-> text, imageData |-> imageData,
   width |-> width, height |-> height, extension |-> extension,
   fontSize |-> fontSize, isBold |-> isBold, isItalic |-> isItalic,
   relId |-> Absent, src |-> src]

\* ------------------------------------------------------------------ bounds

\* Most text runs of the one-page documents that enumerate every run list.
MaxRuns == 3

\* Longest text of the one-item lists that enumerate every text.
MaxChars == 3

\* Most files uploaded with one request.
MaxFiles == 3

\* Longest item list handed to the assembler on its own.
MaxItems == 3

\* Longest operator list of the one-page documents that enumerate every
\* operator sequence.
MaxOps == 4

\* Most pages of the documents built from whole-page choices.
MaxPages == 2

\* All sequences over S of length at most n.
SeqsUpTo(S, n) == UNION { [1..m -> S] : m \in 0..n }

VARIABLES
  \* convertPdf (target 'word')
  cpc,                \* "none", "start", "extract", "assemble", "done", "rejected"
  progressLog,        \* the percentages passed to the caller's onProgress
  \* extractContentFromPdf
  pdf,                \* the loaded document: its pages, as PDF.js answers for them
  epc,                \* "idle", "page", "oplist", "ops", "merge", "done", "rejected"
  i,                  \* page number of the for loop
  j,                  \* operator index of the inner loop (1-based)
  currentMatrix,
  transformStack,
  pageTextItems,
  pageImageItems,
  allItems,
  \* createDocxFromContent
  items,              \* the parameter
  apc,                \* "idle", "map", "body", "done"
  k,                  \* index of the item the current loop is at
  mediaIdCounter,
  imageRels,
  zipMedia,           \* files under word/media: [name, ext, data]
  zipParts,           \* paths of the other parts written to the zip
  processedItems,
  contentTypes,       \* [Content_Types].xml: the Default extensions
  docRels,            \* word/_rels/document.xml.rels: the Relationship list
  currentY,
  currentParaContent, \* runs of the paragraph being built
  bodyContent,        \* paragraphs flushed so far
  documentXml,        \* word/document.xml: the paragraphs of w:body
  \* server: mergeController, compressController, cleanupFiles
  spc,                \* "idle", "request", "download", "cleanup", "done", "failed"
  route,              \* "merge" or "compress"
  filePaths,          \* paths of the uploaded files (req.files, req.file)
  outputPath,         \* the path from getTempFilePath, once taken
  uploadDir,          \* the files in the upload directory
  downloadErr,        \* err of the res.download callback
  dpc,                \* per path given to cleanupFiles: "exists", "unlink", "done"
  deleteErrors,       \* paths logged by deleteFile's catch
  nextErrors          \* the errors passed to next

convVars == << cpc, progressLog >>

extVars == << pdf, epc, i, j, currentMatrix, transformStack, pageTextItems,
              pageImageItems, allItems >>

asmVars == << items, apc, k, mediaIdCounter, imageRels, zipMedia, zipParts,
              processedItems, contentTypes, docRels, currentY,
              currentParaContent, bodyContent, documentXml >>

srvVars == << spc, route, filePaths, outputPath, uploadDir, downloadErr, dpc,
              deleteErrors, nextErrors >>

vars == << convVars, extVars, asmVars, srvVars >>

\* ------------------------------------------------- createDocxFromContent

\* `${item.extension}` in a template string: undefined prints as "undefined".
ExtensionString(extension) == IF extension = Absent THEN "undefined" ELSE extension[1]

\* const id = `rIdImg${mediaIdCounter++}` (the value before the increment).
RelIdOf(counter) == "rIdImg" \o ToString(counter)

\* NextMediaId with the increment lost.
NextMediaIdStuck(counter) == counter

\* The counter after mediaIdCounter++.
NextMediaId(counter) == counter + 1

\* MediaFileName without the counter: every image of one extension is stored
\* under one name.
MediaFileNameShared(counter, extension) == "image." \o ExtensionString(extension)

\* const fileName = `image${mediaIdCounter}.${item.extension}` (read after the
\* increment).
MediaFileName(counter, extension) ==
  "image" \o ToString(counter) \o "." \o ExtensionString(extension)

\* JSZip folder.file(name, data): a later file of the same name replaces the
\* earlier one.
ZipPut(files, name, ext, data) ==
  { f \in files : f.name # name } \cup { [name |-> name, ext |-> ext, data |-> data] }

\* The Default entries of the [Content_Types].xml literal.
ContentTypeDefaults == { "rels", "xml", "png", "jpeg", "jpg" }

\* The Override entries of the [Content_Types].xml literal.
ContentTypeOverrides == { "/word/document.xml", "/word/styles.xml" }

\* DocRelsOf with the loop over imageRels stopping one entry early.
DocRelsShort(rels) ==
  << [id |-> "rId2", type |-> "styles", target |-> "styles.xml"] >>
  \o [n \in 1..(Len(rels) - 1) |->
        [id |-> rels[n].id, type |-> "image", target |-> rels[n].target]]

\* docRels: the styles relationship, then one Relationship per imageRels entry.
DocRelsOf(rels) ==
  << [id |-> "rId2", type |-> "styles", target |-> "styles.xml"] >>
  \o [n \in 1..Len(rels) |-> [id |-> rels[n].id, type |-> "image", target |-> rels[n].target]]

\* 20 * 914400
MAX_EMU == 20 * 914400

\* EmuExtent without the clamp of negative values.
EmuExtentUnfloored(dim, fallback) ==
  LET w == IF dim = Absent \/ dim = Some(0) THEN fallback ELSE dim[1]
      c == MulRound(w, 12700)
  IN IF c > 20 * 914400 THEN 20 * 914400 ELSE c

\* Math.round((dim || fallback) * 12700) clamped: dim and fallback in units of
\* 1/PT point, dim optional.  (0 || 200) and (undefined || 200) are 200.
EmuExtent(dim, fallback) ==
  LET w == IF dim = Absent \/ dim = Some(0) THEN fallback ELSE dim[1]
      c == MulRound(w, 12700)
      c1 == IF c > MAX_EMU THEN MAX_EMU ELSE c
  IN IF c1 < 0 THEN 1000 ELSE c1

\* The characters of the class [\x00-\x08\x0B\x0C\x0E-\x1F] that texts are
\* drawn from here (a control character is written as its code).
StrippedChars == { "x00", "x08", "x0B", "x0C", "x0E", "x1F" }

\* str.replace(/[\x00-\x08\x0B\x0C\x0E-\x1F]/g, '')
cleanXmlString(str) == SelectSeq(str, LAMBDA c : c \notin StrippedChars)

\* str.replace(/c/g, by): every occurrence of the character c, left to right.
RECURSIVE ReplaceAll(_, _, _)
ReplaceAll(str, c, by) ==
  IF str = << >> THEN << >>
  ELSE (IF Head(str) = c THEN by ELSE << Head(str) >>) \o ReplaceAll(Tail(str), c, by)

\* SafeText with the ampersand replaced last.
SafeTextAmpLast(cleanPara) ==
  ReplaceAll(
    ReplaceAll(
      ReplaceAll(
        ReplaceAll(
          ReplaceAll(cleanPara, "<", << "&", "l", "t", ";" >>),
          ">", << "&", "g", "t", ";" >>),
        "\"", << "&", "q", "u", "o", "t", ";" >>),
      "'", << "&", "a", "p", "o", "s", ";" >>),
    "&", << "&", "a", "m", "p", ";" >>)

\* The chain of five replace calls that builds safeText, in the code's order.
SafeText(cleanPara) ==
  ReplaceAll(
    ReplaceAll(
      ReplaceAll(
        ReplaceAll(
          ReplaceAll(cleanPara, "&", << "&", "a", "m", "p", ";" >>),
          "<", << "&", "l", "t", ";" >>),
        ">", << "&", "g", "t", ";" >>),
      "\"", << "&", "q", "u", "o", "t", ";" >>),
    "'", << "&", "a", "p", "o", "s", ";" >>)

\* The text run of an item: the cleaned, escaped characters and the run
\* properties (fontSizeHalfPts = Math.round((item.fontSize || 11) * 2)).
TextRun(item, n) ==
  [kind |-> "text", text |-> SafeText(cleanXmlString(item.text[1])),
   sz |-> MulRound(IF item.fontSize = Absent \/ item.fontSize = Some(0)
                   THEN 11 * PT ELSE item.fontSize[1], 2),
   b |-> item.isBold, i |-> item.isItalic, item |-> n]

\* The drawing run of an image item; docPr is the counter's final value.
ImageRun(item, counter, n) ==
  [kind |-> "image", embed |-> item.relId[1],
   cx |-> EmuExtent(item.width, 200 * PT), cy |-> EmuExtent(item.height, 200 * PT),
   docPr |-> counter, item |-> n]

\* flushParagraph: the body after it (an empty paragraph is not emitted).
Flushed(body, para) == IF para # << >> THEN Append(body, para) ELSE body

AsmInit(list) ==
  /\ items = list
  /\ apc = "map"
  /\ k = 1
  /\ mediaIdCounter = 1
  /\ imageRels = << >>
  /\ zipMedia = {}
  /\ zipParts = {}
  /\ processedItems = << >>
  /\ contentTypes = {}
  /\ docRels = << >>
  /\ currentY = Absent
  /\ currentParaContent = << >>
  /\ bodyContent = << >>
  /\ documentXml = << >>

\* One call of the items.map callback (it holds no await, so the calls run in
\* item order before Promise.all resolves).
AsmMapItem ==
  /\ apc = "map"
  /\ k <= Len(items)
  /\ LET item == items[k] IN
       IF item.type = "image" /\ item.imageData # Absent
       THEN LET id == RelIdOf(mediaIdCounter)
                counter == NextMediaId(mediaIdCounter)
                fileName == MediaFileName(counter, item.extension)
            IN /\ mediaIdCounter' = counter
               /\ zipMedia' = ZipPut(zipMedia, fileName, ExtensionString(item.extension),
                                     item.imageData[1])
               /\ imageRels' = Append(imageRels, [id |-> id, target |-> "media/" \o fileName])
               /\ processedItems' = Append(processedItems, [item EXCEPT !.relId = Some(id)])
       ELSE /\ processedItems' = Append(processedItems, item)
            /\ UNCHANGED << mediaIdCounter, zipMedia, imageRels >>
  /\ k' = k + 1
  /\ UNCHANGED << items, apc, zipParts, contentTypes, docRels, currentY,
                  currentParaContent, bodyContent, documentXml >>
  /\ UNCHANGED << convVars, extVars, srvVars >>

\* AsmWriteParts with processedItems[0].y read without the optional chaining:
\* it throws on an empty list.
AsmWritePartsStrict ==
  /\ apc = "map"
  /\ k > Len(items)
  /\ Len(processedItems) > 0
  /\ contentTypes' = ContentTypeDefaults
  /\ docRels' = DocRelsOf(imageRels)
  /\ zipParts' = zipParts \cup { "[Content_Types].xml", "_rels/.rels",
                                 "word/_rels/document.xml.rels", "word/styles.xml" }
  /\ currentY' = Some(processedItems[1].y)
  /\ apc' = "body"
  /\ k' = 1
  /\ UNCHANGED << items, mediaIdCounter, imageRels, zipMedia, processedItems,
                  currentParaContent, bodyContent, documentXml >>
  /\ UNCHANGED << convVars, extVars, srvVars >>

\* After the map: [Content_Types].xml, _rels/.rels, document.xml.rels and
\* styles.xml are written and the paragraph grouping starts.
AsmWriteParts ==
  /\ apc = "map"
  /\ k > Len(items)
  /\ contentTypes' = ContentTypeDefaults
  /\ docRels' = DocRelsOf(imageRels)
  /\ zipParts' = zipParts \cup { "[Content_Types].xml", "_rels/.rels",
                                 "word/_rels/document.xml.rels", "word/styles.xml" }
  /\ currentY' = IF Len(processedItems) > 0 THEN Some(processedItems[1].y) ELSE Absent
  /\ apc' = "body"
  /\ k' = 1
  /\ UNCHANGED << items, mediaIdCounter, imageRels, zipMedia, processedItems,
                  currentParaContent, bodyContent, documentXml >>
  /\ UNCHANGED << convVars, extVars, srvVars >>

\* AsmSerializeItem breaking the paragraph at the row tolerance of the sort.
AsmSerializeItemBreaksRow ==
  /\ apc = "body"
  /\ k <= Len(processedItems)
  /\ LET item == processedItems[k]
         break == Abs(item.y - currentY[1]) > 5 * PT
         body == IF break THEN Flushed(bodyContent, currentParaContent) ELSE bodyContent
         para == IF break THEN << >> ELSE currentParaContent
     IN /\ currentY' = IF break THEN Some(item.y) ELSE currentY
        /\ bodyContent' = body
        /\ currentParaContent' =
             IF item.type = "text" /\ item.text # Absent /\ item.text # Some(<< >>)
             THEN Append(para, TextRun(item, k))
             ELSE IF item.type = "image" /\ item.relId # Absent
                  THEN Append(para, ImageRun(item, mediaIdCounter, k))
                  ELSE para
  /\ k' = k + 1
  /\ UNCHANGED << items, apc, mediaIdCounter, imageRels, zipMedia, zipParts,
                  processedItems, contentTypes, docRels, documentXml >>
  /\ UNCHANGED << convVars, extVars, srvVars >>

\* AsmSerializeItem with currentY following every item, not only the first
\* of a paragraph.
AsmSerializeItemChained ==
  /\ apc = "body"
  /\ k <= Len(processedItems)
  /\ LET item == processedItems[k]
         break == Abs(item.y - currentY[1]) > 10 * PT
         body == IF break THEN Flushed(bodyContent, currentParaContent) ELSE bodyContent
         para == IF break THEN << >> ELSE currentParaContent
     IN /\ currentY' = Some(item.y)
        /\ bodyContent' = body
        /\ currentParaContent' =
             IF item.type = "text" /\ item.text # Absent /\ item.text # Some(<< >>)
             THEN Append(para, TextRun(item, k))
             ELSE IF item.type = "image" /\ item.relId # Absent
                  THEN Append(para, ImageRun(item, mediaIdCounter, k))
                  ELSE para
  /\ k' = k + 1
  /\ UNCHANGED << items, apc, mediaIdCounter, imageRels, zipMedia, zipParts,
                  processedItems, contentTypes, docRels, documentXml >>
  /\ UNCHANGED << convVars, extVars, srvVars >>

\* One call of the processedItems.forEach callback.
AsmSerializeItem ==
  /\ apc = "body"
  /\ k <= Len(processedItems)
  /\ LET item == processedItems[k]
         break == Abs(item.y - currentY[1]) > 10 * PT
         body == IF break THEN Flushed(bodyContent, currentParaContent) ELSE bodyContent
         para == IF break THEN << >> ELSE currentParaContent
     IN /\ currentY' = IF break THEN Some(item.y) ELSE currentY
        /\ bodyContent' = body
        /\ currentParaContent' =
             IF item.type = "text" /\ item.text # Absent /\ item.text # Some(<< >>)
             THEN Append(para, TextRun(item, k))
             ELSE IF item.type = "image" /\ item.relId # Absent
                  THEN Append(para, ImageRun(item, mediaIdCounter, k))
                  ELSE para
  /\ k' = k + 1
  /\ UNCHANGED << items, apc, mediaIdCounter, imageRels, zipMedia, zipParts,
                  processedItems, contentTypes, docRels, documentXml >>
  /\ UNCHANGED << convVars, extVars, srvVars >>

\* AsmFinish without the last flushParagraph.
AsmFinishNoFlush ==
  /\ apc = "body"
  /\ k > Len(processedItems)
  /\ UNCHANGED bodyContent
  /\ currentParaContent' = << >>
  /\ documentXml' = bodyContent
  /\ zipParts' = zipParts \cup { "word/document.xml" }
  /\ apc' = "done"
  /\ UNCHANGED << items, k, mediaIdCounter, imageRels, zipMedia, processedItems,
                  contentTypes, docRels, currentY >>
  /\ UNCHANGED << convVars, extVars, srvVars >>

\* After the forEach: the last paragraph is flushed, word/document.xml is
\* written and the archive is generated.
AsmFinish ==
  /\ apc = "body"
  /\ k > Len(processedItems)
  /\ bodyContent' = Flushed(bodyContent, currentParaContent)
  /\ currentParaContent' = << >>
  /\ documentXml' = Flushed(bodyContent, currentParaContent)
  /\ zipParts' = zipParts \cup { "word/document.xml" }
  /\ apc' = "done"
  /\ UNCHANGED << items, k, mediaIdCounter, imageRels, zipMedia, processedItems,
                  contentTypes, docRels, currentY >>
  /\ UNCHANGED << convVars, extVars, srvVars >>

\* After the forEach, when zip.generateAsync rejects: the parts are in the
\* archive object, but createDocxFromContent rejects and answers no package.
\* The parts the assembler writes itself are strings; what generateAsync can
\* fail on is the data of a media file, which it reads only now.
AsmGenerateRejects ==
  /\ apc = "body"
  /\ k > Len(processedItems)
  /\ zipMedia # {}
  /\ bodyContent' = Flushed(bodyContent, currentParaContent)
  /\ currentParaContent' = << >>
  /\ zipParts' = zipParts \cup { "word/document.xml" }
  /\ apc' = "rejected"
  /\ UNCHANGED << items, k, mediaIdCounter, imageRels, zipMedia, processedItems,
                  contentTypes, docRels, currentY, documentXml >>
  /\ UNCHANGED << convVars, extVars, srvVars >>

AsmNext ==
  AsmMapItem \/ AsmWriteParts \/ AsmSerializeItem \/ AsmFinish \/ AsmGenerateRejects


\* ------------------------------------------------- extractContentFromPdf

\* JavaScript's WhiteSpace and LineTerminator characters among those texts
\* are drawn from (String.prototype.trim strips them at both ends).
JsWhiteSpace == { " ", "\t", "\n", "\r", "x0B", "x0C" }

\* str.trim()
RECURSIVE trimStart(_)
trimStart(str) ==
  IF str # << >> /\ Head(str) \in JsWhiteSpace THEN trimStart(Tail(str)) ELSE str

RECURSIVE trimEnd(_)
trimEnd(str) ==
  IF str # << >> /\ str[Len(str)] \in JsWhiteSpace
  THEN trimEnd(SubSeq(str, 1, Len(str) - 1)) ELSE str

trim(str) == trimEnd(trimStart(str))

\* endsWithSpace taking any white space for the space.
endsWithSpaceOrTab(str) == str # << >> /\ str[Len(str)] \in JsWhiteSpace

\* str.endsWith(" ") and str.startsWith(" ")
endsWithSpace(str) == str # << >> /\ str[Len(str)] = " "
startsWithSpace(str) == str # << >> /\ Head(str) = " "

\* haystack.includes(needle)
includes(haystack, needle) ==
  \E n \in 0..(Len(haystack) - Len(needle)) :
    SubSeq(haystack, n + 1, n + Len(needle)) = needle

\* c.toLowerCase() for the letters font names are written with here.
LowerChar(c) ==
  CASE c = "A" -> "a" [] c = "B" -> "b" [] c = "H" -> "h" [] c = "I" -> "i"
    [] c = "O" -> "o" [] c = "T" -> "t" [] OTHER -> c

toLowerCase(str) == [n \in 1..Len(str) |-> LowerChar(str[n])]

\* Math.sqrt of a perfect square (every sum of squares taken here is one:
\* the transforms of the documents below scale, mirror, turn by 90 degrees
\* and translate).
RECURSIVE RootFrom(_, _)
RootFrom(n, r) == IF (r + 1) * (r + 1) > n THEN r ELSE RootFrom(n, r + 1)

sqrt(n) == RootFrom(n, 0)

\* The font family names of textContent.styles, by fontName.
Styles(fontName) ==
  CASE fontName = "g_d0_f1" -> << "A", "r", "i", "a", "l" >>
    [] fontName = "g_d0_f2" -> << "A", "r", "i", "a", "l", "-", "B", "o", "l", "d" >>
    [] fontName = "g_d0_f3" -> << "T", "i", "-", "I", "t", "a", "l", "i", "c" >>
    [] OTHER -> << >>

\* The callback of textContent.items.map: one text run of PDF.js as an item.
\* run = [str, transform, width, fontName]; page is the page number.
TextItemOf(run, page) ==
  LET tx == run.transform
      name == IF run.fontName # Absent THEN toLowerCase(Styles(run.fontName[1])) ELSE << >>
      isBold == \/ includes(name, << "b", "o", "l", "d" >>)
                \/ includes(name, << "b", "l", "a", "c", "k" >>)
                \/ includes(name, << "h", "e", "a", "v", "y" >>)
      isItalic == \/ includes(name, << "i", "t", "a", "l", "i", "c" >>)
                  \/ includes(name, << "o", "b", "l", "i", "q", "u", "e" >>)
  IN Item("text", tx[5], tx[6], Some(run.str), Absent, Some(run.width), Absent, Absent,
          Some(sqrt(tx[3] * tx[3] + tx[4] * tx[4]) * PT), isBold, isItalic, page)

\* KeepText without the trim.
KeepTextUntrimmed(t) == Len(t.text[1]) > 0

\* .filter((t) => t.text.trim().length > 0)
KeepText(t) == Len(trim(t.text[1])) > 0

\* pageTextItems of a page: the map, then the filter.
PageTextItemsOf(runs, page) ==
  SelectSeq([n \in 1..Len(runs) |-> TextItemOf(runs[n], page)], KeepText)

Identity == << 1, 0, 0, 1, 0, 0 >>

\* transform with e2 written for e1 in the fifth entry.
transformSlip(m1, m2) ==
  << m1[1] * m2[1] + m1[3] * m2[2],
     m1[2] * m2[1] + m1[4] * m2[2],
     m1[1] * m2[3] + m1[3] * m2[4],
     m1[2] * m2[3] + m1[4] * m2[4],
     m1[1] * m2[5] + m1[3] * m2[6] + m2[5],
     m1[2] * m2[5] + m1[4] * m2[6] + m1[6] >>

\* The composition of the OPS.transform branch: m1 is currentMatrix, m2 the
\* operator's arguments.
transform(m1, m2) ==
  << m1[1] * m2[1] + m1[3] * m2[2],
     m1[2] * m2[1] + m1[4] * m2[2],
     m1[1] * m2[3] + m1[3] * m2[4],
     m1[2] * m2[3] + m1[4] * m2[4],
     m1[1] * m2[5] + m1[3] * m2[6] + m1[5],
     m1[2] * m2[5] + m1[4] * m2[6] + m1[6] >>

\* The image objects of a page, by name: what page.objs.get(name) answers, and
\* the dictionary an inline image operator carries as args[0] (named here by
\* the same key).  resolves = FALSE: get throws.
\* ctx = FALSE: getContext is null.  draws = FALSE: drawImage throws.
\* blob = FALSE: toBlob answers null.
ImgObj(resolves, width, height, ctx, draws, blob, data) ==
  [resolves |-> resolves, width |-> width, height |-> height, ctx |-> ctx,
   draws |-> draws, blob |-> blob, data |-> data]

Objs(name) ==
  CASE name = "Im1" -> ImgObj(TRUE, 10, 20, TRUE, TRUE, TRUE, 1)
    [] name = "Im2" -> ImgObj(TRUE, 30, 30, TRUE, TRUE, TRUE, 2)
    [] name = "ImZero" -> ImgObj(TRUE, 0, 20, TRUE, TRUE, TRUE, 3)
    [] name = "ImNoCtx" -> ImgObj(TRUE, 10, 20, FALSE, TRUE, TRUE, 4)
    [] name = "ImBad" -> ImgObj(TRUE, 10, 20, TRUE, FALSE, TRUE, 5)
    [] name = "ImNoBlob" -> ImgObj(TRUE, 10, 20, TRUE, TRUE, FALSE, 6)
    [] OTHER -> ImgObj(FALSE, 0, 0, FALSE, FALSE, FALSE, 0)

PaintOps == { "paintImageXObject", "paintJpegXObject", "paintInlineImageXObject" }

\* imgObj of the paint branch: args[0] itself for an inline image, else
\* page.objs.get(args[0]), null when get throws.
ImgObjOf(op) ==
  IF op.fn = "paintInlineImageXObject" THEN Some(Objs(op.args[1][1]))
  ELSE IF Objs(op.args[1][1]).resolves THEN Some(Objs(op.args[1][1])) ELSE Absent

\* PaintedItems with the failures of drawImage and toBlob ignored.
PaintedItemsUndrawn(op, m, page) ==
  LET imgObj == ImgObjOf(op) IN
    IF /\ imgObj # Absent
       /\ imgObj[1].width # 0 /\ imgObj[1].height # 0
       /\ imgObj[1].ctx
    THEN << Item("image", m[5], m[6], Absent, Some(imgObj[1].data),
                 Some(sqrt(m[1] * m[1] + m[2] * m[2]) * PT),
                 Some(sqrt(m[3] * m[3] + m[4] * m[4]) * PT),
                 Some("png"), Absent, FALSE, FALSE, page) >>
    ELSE << >>

\* The items the paint branch pushes for op under matrix m: one image item, or
\* none when the object is missing, has no size, or cannot be drawn or encoded.
PaintedItems(op, m, page) ==
  LET imgObj == ImgObjOf(op) IN
    IF /\ imgObj # Absent
       /\ imgObj[1].width # 0 /\ imgObj[1].height # 0
       /\ imgObj[1].ctx /\ imgObj[1].draws /\ imgObj[1].blob
    THEN << Item("image", m[5], m[6], Absent, Some(imgObj[1].data),
                 Some(sqrt(m[1] * m[1] + m[2] * m[2]) * PT),
                 Some(sqrt(m[3] * m[3] + m[4] * m[4]) * PT),
                 Some("png"), Absent, FALSE, FALSE, page) >>
    ELSE << >>

\* An operator whose interpretation throws: its args are null where the branch
\* destructures or indexes them.
Throws(op) == op.fn \in PaintOps \cup { "transform" } /\ op.args = Absent

\* The comparator of the page sort.
Compare(a, b) ==
  LET yDiff == b.y - a.y IN IF Abs(yDiff) < 5 * PT THEN a.x - b.x ELSE yDiff


\* Array.prototype.sort as V8 runs it on an array shorter than 64 elements:
\* the leading run is found (and reversed when strictly descending), then the
\* rest is inserted by binary insertion.  Positions are 0-based as in V8.
RECURSIVE RunEnd(_, _, _)
RunEnd(a, descending, idx) ==
  IF idx >= Len(a) THEN Len(a)
  ELSE LET order == Compare(a[idx + 1], a[idx]) IN
         IF (descending /\ order >= 0) \/ (~descending /\ order < 0) THEN idx
         ELSE RunEnd(a, descending, idx + 1)

Reverse(a) == [n \in 1..Len(a) |-> a[Len(a) + 1 - n]]

RECURSIVE BinaryPosition(_, _, _, _)
BinaryPosition(a, pivot, left, right) ==
  IF left >= right THEN left
  ELSE LET mid == left + ((right - left) \div 2) IN
         IF Compare(pivot, a[mid + 1]) < 0 THEN BinaryPosition(a, pivot, left, mid)
         ELSE BinaryPosition(a, pivot, mid + 1, right)

RECURSIVE BinaryInsertionSort(_, _)
BinaryInsertionSort(a, start) ==
  IF start >= Len(a) THEN a
  ELSE LET pivot == a[start + 1]
           left == BinaryPosition(a, pivot, 0, start)
       IN BinaryInsertionSort(SubSeq(a, 1, left) \o << pivot >> \o SubSeq(a, left + 1, start)
                                \o SubSeq(a, start + 2, Len(a)),
                              start + 1)

sort(a) ==
  IF Len(a) < 2 THEN a
  ELSE LET descending == Compare(a[2], a[1]) < 0
           run == RunEnd(a, descending, 2)
           a1 == IF descending THEN Reverse(SubSeq(a, 1, run)) \o SubSeq(a, run + 1, Len(a))
                 ELSE a
       IN BinaryInsertionSort(a1, run)

\* (item.fontSize || fallback), (item.width || 0)
FontSizeOr(item, fallback) ==
  IF item.fontSize = Absent \/ item.fontSize = Some(0) THEN fallback ELSE item.fontSize[1]

WidthOr0(item) == IF item.width = Absent THEN 0 ELSE item.width[1]

\* The merge test of the forEach callback.
Mergeable(currentItem, item) ==
  /\ currentItem.type = "text" /\ item.type = "text"
  /\ Abs(currentItem.y - item.y) < 4 * PT
  /\ Abs(FontSizeOr(currentItem, 0) - FontSizeOr(item, 0)) < 2 * PT
  /\ currentItem.isBold = item.isBold
  /\ currentItem.isItalic = item.isItalic

\* MergedItem that also moves currentItem to the line of the appended item.
MergedItemMovesY(currentItem, item) ==
  LET gap == item.x - (currentItem.x + WidthOr0(currentItem))
      separator == IF /\ 5 * gap > FontSizeOr(currentItem, 10 * PT)
                      /\ ~endsWithSpace(currentItem.text[1])
                      /\ ~startsWithSpace(item.text[1])
                   THEN << " " >> ELSE << >>
  IN [currentItem EXCEPT !.text = Some(currentItem.text[1] \o separator \o item.text[1]),
                         !.width = Some(WidthOr0(currentItem) + gap + WidthOr0(item)),
                         !.y = item.y]

\* currentItem after item is appended to it (gap > fontSize * 0.2 is
\* 5 * gap > fontSize).
MergedItem(currentItem, item) ==
  LET gap == item.x - (currentItem.x + WidthOr0(currentItem))
      separator == IF /\ 5 * gap > FontSizeOr(currentItem, 10 * PT)
                      /\ ~endsWithSpace(currentItem.text[1])
                      /\ ~startsWithSpace(item.text[1])
                   THEN << " " >> ELSE << >>
  IN [currentItem EXCEPT !.text = Some(currentItem.text[1] \o separator \o item.text[1]),
                         !.width = Some(WidthOr0(currentItem) + gap + WidthOr0(item))]

\* MergeFrom with a merged item pushed at once, so that at most two items
\* are ever joined.
RECURSIVE MergeFromPairs(_, _, _)
MergeFromPairs(currentItem, rest, out) ==
  IF rest = << >> THEN Append(out, currentItem)
  ELSE IF Mergeable(currentItem, Head(rest))
       THEN IF Tail(rest) = << >> THEN Append(out, MergedItem(currentItem, Head(rest)))
            ELSE MergeFromPairs(Head(Tail(rest)), Tail(Tail(rest)),
                                Append(out, MergedItem(currentItem, Head(rest))))
       ELSE MergeFromPairs(Head(rest), Tail(rest), Append(out, currentItem))

\* The forEach over pageItems with its running currentItem, and the final
\* push: the items the page adds to allItems.
RECURSIVE MergeFrom(_, _, _)
MergeFrom(currentItem, rest, out) ==
  IF rest = << >> THEN Append(out, currentItem)
  ELSE IF Mergeable(currentItem, Head(rest))
       THEN MergeFrom(MergedItem(currentItem, Head(rest)), Tail(rest), out)
       ELSE MergeFrom(Head(rest), Tail(rest), Append(out, currentItem))

MergedItems(pageItems) ==
  IF pageItems = << >> THEN << >> ELSE MergeFrom(Head(pageItems), Tail(pageItems), << >>)

\* Math.round((i / numPages) * 100)
PagePercent(page, numPages) == (200 * page + numPages) \div (2 * numPages)

\* AnalyzePercent without the factor 0.4.
AnalyzePercentUnscaled(p) == 10 + p

\* convertPdf's callback: 10 + Math.round(p * 0.4)
AnalyzePercent(p) == 10 + ((4 * p + 5) \div 10)

ExtIdle ==
  /\ pdf = << >>
  /\ epc = "idle"
  /\ i = 1
  /\ j = 1
  /\ currentMatrix = Identity
  /\ transformStack = << >>
  /\ pageTextItems = << >>
  /\ pageImageItems = << >>
  /\ allItems = << >>

\* The operator the inner loop is at.
Op == pdf[i].ops[1][j]

\* Where the inner loop stands after the operator at j.
AfterOp == IF j + 1 > Len(pdf[i].ops[1]) THEN "merge" ELSE "ops"

\* Top of the page loop: progress is reported, then getPage and
\* getTextContent answer and the text items are mapped and filtered.
ExtTextContent ==
  /\ epc = "page"
  /\ i <= Len(pdf)
  /\ pdf[i].text # Absent
  /\ progressLog' = Append(progressLog, AnalyzePercent(PagePercent(i, Len(pdf))))
  /\ pageTextItems' = PageTextItemsOf(pdf[i].text[1], i)
  /\ pageImageItems' = << >>
  /\ epc' = "oplist"
  /\ UNCHANGED << cpc, pdf, i, j, currentMatrix, transformStack, allItems, asmVars, srvVars >>

\* Top of the page loop when getPage or getTextContent rejects: nothing
\* catches it, so extractContentFromPdf and convertPdf reject.
ExtTextRejects ==
  /\ epc = "page"
  /\ i <= Len(pdf)
  /\ pdf[i].text = Absent
  /\ progressLog' = Append(progressLog, AnalyzePercent(PagePercent(i, Len(pdf))))
  /\ epc' = "rejected"
  /\ cpc' = "rejected"
  /\ UNCHANGED << pdf, i, j, currentMatrix, transformStack, pageTextItems,
                  pageImageItems, allItems, asmVars, srvVars >>

\* ExtOperatorList with the stack and the matrix declared outside the page
\* loop, so that they live on from page to page.
ExtOperatorListKeepsState ==
  /\ epc = "oplist"
  /\ pdf[i].ops # Absent
  /\ j' = 1
  /\ epc' = IF pdf[i].ops[1] = << >> THEN "merge" ELSE "ops"
  /\ UNCHANGED << convVars, pdf, i, currentMatrix, transformStack, pageTextItems,
                  pageImageItems, allItems, asmVars, srvVars >>

\* getOperatorList answers: the walk starts with a fresh stack and matrix.
ExtOperatorList ==
  /\ epc = "oplist"
  /\ pdf[i].ops # Absent
  /\ transformStack' = << >>
  /\ currentMatrix' = Identity
  /\ j' = 1
  /\ epc' = IF pdf[i].ops[1] = << >> THEN "merge" ELSE "ops"
  /\ UNCHANGED << convVars, pdf, i, pageTextItems, pageImageItems, allItems, asmVars, srvVars >>

\* getOperatorList rejects: the catch logs it and the page goes on.
ExtOperatorListRejects ==
  /\ epc = "oplist"
  /\ pdf[i].ops = Absent
  /\ epc' = "merge"
  /\ UNCHANGED << convVars, pdf, i, j, currentMatrix, transformStack, pageTextItems,
                  pageImageItems, allItems, asmVars, srvVars >>

WalkSave ==
  /\ epc = "ops"
  /\ Op.fn = "save"
  /\ transformStack' = Append(transformStack, currentMatrix)
  /\ j' = j + 1
  /\ epc' = AfterOp
  /\ UNCHANGED << convVars, pdf, i, currentMatrix, pageTextItems, pageImageItems,
                  allItems, asmVars, srvVars >>

\* WalkRestore with a restore on an empty stack resetting the matrix.
WalkRestoreResets ==
  /\ epc = "ops"
  /\ Op.fn = "restore"
  /\ IF Len(transformStack) > 0
     THEN /\ currentMatrix' = transformStack[Len(transformStack)]
          /\ transformStack' = SubSeq(transformStack, 1, Len(transformStack) - 1)
     ELSE /\ currentMatrix' = Identity
          /\ UNCHANGED transformStack
  /\ j' = j + 1
  /\ epc' = AfterOp
  /\ UNCHANGED << convVars, pdf, i, pageTextItems, pageImageItems, allItems, asmVars, srvVars >>

WalkRestore ==
  /\ epc = "ops"
  /\ Op.fn = "restore"
  /\ IF Len(transformStack) > 0
     THEN /\ currentMatrix' = transformStack[Len(transformStack)]
          /\ transformStack' = SubSeq(transformStack, 1, Len(transformStack) - 1)
     ELSE UNCHANGED << currentMatrix, transformStack >>
  /\ j' = j + 1
  /\ epc' = AfterOp
  /\ UNCHANGED << convVars, pdf, i, pageTextItems, pageImageItems, allItems, asmVars, srvVars >>

\* WalkTransform with the operands of the composition exchanged.
WalkTransformPremultiplies ==
  /\ epc = "ops"
  /\ Op.fn = "transform"
  /\ ~Throws(Op)
  /\ currentMatrix' = transform(Op.args[1], currentMatrix)
  /\ j' = j + 1
  /\ epc' = AfterOp
  /\ UNCHANGED << convVars, pdf, i, transformStack, pageTextItems, pageImageItems,
                  allItems, asmVars, srvVars >>

WalkTransform ==
  /\ epc = "ops"
  /\ Op.fn = "transform"
  /\ ~Throws(Op)
  /\ currentMatrix' = transform(currentMatrix, Op.args[1])
  /\ j' = j + 1
  /\ epc' = AfterOp
  /\ UNCHANGED << convVars, pdf, i, transformStack, pageTextItems, pageImageItems,
                  allItems, asmVars, srvVars >>

\* WalkPaintImage with the item put in front of those pushed before it, as
\* when an earlier image is still being encoded.
WalkPaintImageOvertakes ==
  /\ epc = "ops"
  /\ Op.fn \in PaintOps
  /\ ~Throws(Op)
  /\ pageImageItems' = PaintedItems(Op, currentMatrix, i) \o pageImageItems
  /\ j' = j + 1
  /\ epc' = AfterOp
  /\ UNCHANGED << convVars, pdf, i, currentMatrix, transformStack, pageTextItems,
                  allItems, asmVars, srvVars >>

\* An image operator: the object is fetched, drawn and encoded, and the item
\* is pushed, before the loop goes on.
WalkPaintImage ==
  /\ epc = "ops"
  /\ Op.fn \in PaintOps
  /\ ~Throws(Op)
  /\ pageImageItems' = pageImageItems \o PaintedItems(Op, currentMatrix, i)
  /\ j' = j + 1
  /\ epc' = AfterOp
  /\ UNCHANGED << convVars, pdf, i, currentMatrix, transformStack, pageTextItems,
                  allItems, asmVars, srvVars >>

\* Any other operator: no branch of the if chain takes it.
WalkOther ==
  /\ epc = "ops"
  /\ Op.fn \notin PaintOps \cup { "save", "restore", "transform" }
  /\ j' = j + 1
  /\ epc' = AfterOp
  /\ UNCHANGED << convVars, pdf, i, currentMatrix, transformStack, pageTextItems,
                  pageImageItems, allItems, asmVars, srvVars >>

\* WalkThrow with the catch also discarding the images pushed so far.
WalkThrowDropsImages ==
  /\ epc = "ops"
  /\ Throws(Op)
  /\ epc' = "merge"
  /\ pageImageItems' = << >>
  /\ UNCHANGED << convVars, pdf, i, j, currentMatrix, transformStack, pageTextItems,
                  allItems, asmVars, srvVars >>

\* The operator throws (a TypeError on null args): the catch around the
\* operator loop ends the loop and logs it.
WalkThrow ==
  /\ epc = "ops"
  /\ Throws(Op)
  /\ epc' = "merge"
  /\ UNCHANGED << convVars, pdf, i, j, currentMatrix, transformStack, pageTextItems,
                  pageImageItems, allItems, asmVars, srvVars >>

\* ExtFinishPage with the sort and merge run over the accumulated list.
ExtFinishPageSortsAll ==
  /\ epc = "merge"
  /\ allItems' = MergedItems(sort(allItems \o pageTextItems \o pageImageItems))
  /\ i' = i + 1
  /\ epc' = "page"
  /\ UNCHANGED << convVars, pdf, j, currentMatrix, transformStack, pageTextItems,
                  pageImageItems, asmVars, srvVars >>

\* Rest of the page loop's body: combine, sort, merge, push onto allItems.
ExtFinishPage ==
  /\ epc = "merge"
  /\ allItems' = allItems \o MergedItems(sort(pageTextItems \o pageImageItems))
  /\ i' = i + 1
  /\ epc' = "page"
  /\ UNCHANGED << convVars, pdf, j, currentMatrix, transformStack, pageTextItems,
                  pageImageItems, asmVars, srvVars >>

ExtNext ==
  \/ ExtTextContent \/ ExtTextRejects \/ ExtOperatorList \/ ExtOperatorListRejects
  \/ WalkSave \/ WalkRestore \/ WalkTransform \/ WalkPaintImage \/ WalkOther \/ WalkThrow
  \/ ExtFinishPage

\* ------------------------------------------------------------ convertPdf

AsmIdle ==
  /\ items = << >>
  /\ apc = "idle"
  /\ k = 1
  /\ mediaIdCounter = 1
  /\ imageRels = << >>
  /\ zipMedia = {}
  /\ zipParts = {}
  /\ processedItems = << >>
  /\ contentTypes = {}
  /\ docRels = << >>
  /\ currentY = Absent
  /\ currentParaContent = << >>
  /\ bodyContent = << >>
  /\ documentXml = << >>

\* convertPdf(file, 'word'): the first progress report, and
\* extractContentFromPdf up to its page loop.
ConvStart ==
  /\ cpc = "start"
  /\ progressLog' = Append(progressLog, 10)
  /\ cpc' = "extract"
  /\ epc' = "page"
  /\ i' = 1
  /\ allItems' = << >>
  /\ UNCHANGED << pdf, j, currentMatrix, transformStack, pageTextItems, pageImageItems,
                  asmVars, srvVars >>

\* ConvGenerate with a sort and a merge of the whole list before the
\* assembler is called.
ConvGenerateReconstructs ==
  /\ cpc = "extract"
  /\ epc = "page"
  /\ i > Len(pdf)
  /\ epc' = "done"
  /\ progressLog' = Append(progressLog, 60)
  /\ cpc' = "assemble"
  /\ items' = MergedItems(sort(allItems))
  /\ apc' = "map"
  /\ k' = 1
  /\ mediaIdCounter' = 1
  /\ imageRels' = << >>
  /\ zipMedia' = {}
  /\ processedItems' = << >>
  /\ UNCHANGED << pdf, i, j, currentMatrix, transformStack, pageTextItems, pageImageItems,
                  allItems, zipParts, contentTypes, docRels, currentY,
                  currentParaContent, bodyContent, documentXml >>
  /\ UNCHANGED srvVars

\* The page loop is over: extractContentFromPdf returns allItems, convertPdf
\* reports 60 and calls createDocxFromContent, which runs up to its map.
ConvGenerate ==
  /\ cpc = "extract"
  /\ epc = "page"
  /\ i > Len(pdf)
  /\ epc' = "done"
  /\ progressLog' = Append(progressLog, 60)
  /\ cpc' = "assemble"
  /\ items' = allItems
  /\ apc' = "map"
  /\ k' = 1
  /\ mediaIdCounter' = 1
  /\ imageRels' = << >>
  /\ zipMedia' = {}
  /\ processedItems' = << >>
  /\ UNCHANGED << pdf, i, j, currentMatrix, transformStack, pageTextItems, pageImageItems,
                  allItems, zipParts, contentTypes, docRels, currentY,
                  currentParaContent, bodyContent, documentXml >>
  /\ UNCHANGED srvVars

\* createDocxFromContent has answered: convertPdf reports 100 and returns.
ConvDone ==
  /\ cpc = "assemble"
  /\ apc = "done"
  /\ progressLog' = Append(progressLog, 100)
  /\ cpc' = "done"
  /\ UNCHANGED << extVars, asmVars, srvVars >>

\* createDocxFromContent has rejected: nothing catches it, convertPdf rejects.
ConvGenerateRejects ==
  /\ cpc = "assemble"
  /\ apc = "rejected"
  /\ cpc' = "rejected"
  /\ UNCHANGED << progressLog, extVars, asmVars, srvVars >>

\* ------------------------------------------------------------ the server

\* The path multer stored the n-th uploaded file under, and the path
\* getTempFilePath answers (uuid names: all different).
InPath(n) == "in" \o ToString(n)
OutPath == "out"

SrvIdle ==
  /\ spc = "idle"
  /\ route = "none"
  /\ filePaths = << >>
  /\ outputPath = Absent
  /\ uploadDir = {}
  /\ downloadErr = FALSE
  /\ dpc = << >>
  /\ deleteErrors = {}
  /\ nextErrors = << >>

\* A request reaches a controller: multer has stored its files.
SrvRequest(r, n) ==
  /\ spc = "request"
  /\ route = r
  /\ filePaths = [m \in 1..n |-> InPath(m)]
  /\ outputPath = Absent
  /\ uploadDir = { InPath(m) : m \in 1..n }
  /\ downloadErr = FALSE
  /\ dpc = << >>
  /\ deleteErrors = {}
  /\ nextErrors = << >>

\* mergeController with fewer than two files: AppError 400 goes to next.
MergeRejects ==
  /\ spc = "request" /\ route = "merge"
  /\ Len(filePaths) < 2
  /\ nextErrors' = Append(nextErrors, "400")
  /\ spc' = "failed"
  /\ UNCHANGED << route, filePaths, outputPath, uploadDir, downloadErr, dpc, deleteErrors >>
  /\ UNCHANGED << convVars, extVars, asmVars >>

\* mergeController: mergePdfs writes the output and res.download starts.
MergeDownloads ==
  /\ spc = "request" /\ route = "merge"
  /\ Len(filePaths) >= 2
  /\ outputPath' = Some(OutPath)
  /\ uploadDir' = uploadDir \cup { OutPath }
  /\ spc' = "download"
  /\ UNCHANGED << route, filePaths, downloadErr, dpc, deleteErrors, nextErrors >>
  /\ UNCHANGED << convVars, extVars, asmVars >>

\* mergeController: mergePdfs throws (the output may have been written in
\* part) and the catch passes the AppError 500 to next.
MergeFails ==
  /\ spc = "request" /\ route = "merge"
  /\ Len(filePaths) >= 2
  /\ outputPath' = Some(OutPath)
  /\ \E written \in BOOLEAN :
       uploadDir' = IF written THEN uploadDir \cup { OutPath } ELSE uploadDir
  /\ nextErrors' = Append(nextErrors, "500")
  /\ spc' = "failed"
  /\ UNCHANGED << route, filePaths, downloadErr, dpc, deleteErrors >>
  /\ UNCHANGED << convVars, extVars, asmVars >>

\* compressController without a file: AppError 400 goes to next.
CompressRejects ==
  /\ spc = "request" /\ route = "compress"
  /\ Len(filePaths) = 0
  /\ nextErrors' = Append(nextErrors, "400")
  /\ spc' = "failed"
  /\ UNCHANGED << route, filePaths, outputPath, uploadDir, downloadErr, dpc, deleteErrors >>
  /\ UNCHANGED << convVars, extVars, asmVars >>

\* compressController: compressPdf writes the output and res.download starts.
CompressDownloads ==
  /\ spc = "request" /\ route = "compress"
  /\ Len(filePaths) = 1
  /\ outputPath' = Some(OutPath)
  /\ uploadDir' = uploadDir \cup { OutPath }
  /\ spc' = "download"
  /\ UNCHANGED << route, filePaths, downloadErr, dpc, deleteErrors, nextErrors >>
  /\ UNCHANGED << convVars, extVars, asmVars >>

\* compressController: compressPdf throws after Ghostscript and the fallback
\* failed (either may have left an output) and the catch calls next.
CompressFails ==
  /\ spc = "request" /\ route = "compress"
  /\ Len(filePaths) = 1
  /\ outputPath' = Some(OutPath)
  /\ \E written \in BOOLEAN :
       uploadDir' = IF written THEN uploadDir \cup { OutPath } ELSE uploadDir
  /\ nextErrors' = Append(nextErrors, "500")
  /\ spc' = "failed"
  /\ UNCHANGED << route, filePaths, downloadErr, dpc, deleteErrors >>
  /\ UNCHANGED << convVars, extVars, asmVars >>

\* The file splitPdf writes for page n into the directory <input>_split.
PagePath(n) == "page" \o ToString(n)

SplitPages == { PagePath(n) : n \in 1..MaxFiles }

\* splitController without a file: AppError 400 goes to next.
SplitRejects ==
  /\ spc = "request" /\ route = "split"
  /\ Len(filePaths) = 0
  /\ nextErrors' = Append(nextErrors, "400")
  /\ spc' = "failed"
  /\ UNCHANGED << route, filePaths, outputPath, uploadDir, downloadErr, dpc, deleteErrors >>
  /\ UNCHANGED << convVars, extVars, asmVars >>

\* splitController: splitPdf writes one file per page, the archive is written
\* and closed, and res.download of the archive starts.
SplitDownloads ==
  /\ spc = "request" /\ route = "split"
  /\ Len(filePaths) = 1
  /\ outputPath' = Some(OutPath)
  /\ \E n \in 1..MaxFiles :
       uploadDir' = uploadDir \cup { PagePath(m) : m \in 1..n } \cup { OutPath }
  /\ spc' = "download"
  /\ UNCHANGED << route, filePaths, downloadErr, dpc, deleteErrors, nextErrors >>
  /\ UNCHANGED << convVars, extVars, asmVars >>

\* splitController: ensureDir, splitPdf or archive.finalize throws, after some
\* pages and perhaps a part of the archive were written; the catch calls next.
SplitFails ==
  /\ spc = "request" /\ route = "split"
  /\ Len(filePaths) = 1
  /\ \E n \in 0..MaxFiles, zip \in BOOLEAN :
       /\ outputPath' = IF zip THEN Some(OutPath) ELSE Absent
       /\ uploadDir' = uploadDir \cup { PagePath(m) : m \in 1..n }
                          \cup (IF zip THEN { OutPath } ELSE {})
  /\ nextErrors' = Append(nextErrors, "500")
  /\ spc' = "failed"
  /\ UNCHANGED << route, filePaths, downloadErr, dpc, deleteErrors >>
  /\ UNCHANGED << convVars, extVars, asmVars >>

\* splitController: the archive emits 'error' and the listener throws out of
\* the emitter: nothing catches it and next is not called.
SplitArchiveThrows ==
  /\ spc = "request" /\ route = "split"
  /\ Len(filePaths) = 1
  /\ outputPath' = Some(OutPath)
  /\ \E n \in 1..MaxFiles :
       uploadDir' = uploadDir \cup { PagePath(m) : m \in 1..n } \cup { OutPath }
  /\ spc' = "uncaught"
  /\ UNCHANGED << route, filePaths, downloadErr, dpc, deleteErrors, nextErrors >>
  /\ UNCHANGED << convVars, extVars, asmVars >>

\* The two controllers of the office routes.
OfficeRoutes == { "officeToPdf", "pdfToOffice" }

\* officeToPdfController, pdfToOfficeController without a file: AppError 400.
ConvertRejects ==
  /\ spc = "request" /\ route \in OfficeRoutes
  /\ Len(filePaths) = 0
  /\ nextErrors' = Append(nextErrors, "400")
  /\ spc' = "failed"
  /\ UNCHANGED << route, filePaths, outputPath, uploadDir, downloadErr, dpc, deleteErrors >>
  /\ UNCHANGED << convVars, extVars, asmVars >>

\* officeToPdfController, pdfToOfficeController: convertDocument answers the
\* path of the converted file (or of its placeholder) in the upload directory
\* and res.download starts.
ConvertDownloads ==
  /\ spc = "request" /\ route \in OfficeRoutes
  /\ Len(filePaths) = 1
  /\ outputPath' = Some(OutPath)
  /\ uploadDir' = uploadDir \cup { OutPath }
  /\ spc' = "download"
  /\ UNCHANGED << route, filePaths, downloadErr, dpc, deleteErrors, nextErrors >>
  /\ UNCHANGED << convVars, extVars, asmVars >>

\* officeToPdfController, pdfToOfficeController: LibreOffice and the
\* placeholder both fail; convertDocument throws before its path is assigned
\* and the catch calls next.
ConvertFails ==
  /\ spc = "request" /\ route \in OfficeRoutes
  /\ Len(filePaths) = 1
  /\ \E written \in BOOLEAN :
       uploadDir' = IF written THEN uploadDir \cup { OutPath } ELSE uploadDir
  /\ nextErrors' = Append(nextErrors, "500")
  /\ spc' = "failed"
  /\ UNCHANGED << route, filePaths, outputPath, downloadErr, dpc, deleteErrors >>
  /\ UNCHANGED << convVars, extVars, asmVars >>

\* CleanupList without the output path.
CleanupListInputsOnly == { filePaths[n] : n \in 1..Len(filePaths) }

\* The paths the download callback gives to cleanupFiles:
\* [...filePaths, outputPath], [file.path, outputPath].
CleanupList == { filePaths[n] : n \in 1..Len(filePaths) } \cup { outputPath[1] }

\* The transfer ends, well or with an error: the callback of res.download
\* runs and cleanupFiles starts one deleteFile per path.
DownloadCallback ==
  /\ spc = "download"
  /\ \E err \in BOOLEAN : downloadErr' = err
  /\ dpc' = [p \in CleanupList |-> "exists"]
  /\ spc' = "cleanup"
  /\ UNCHANGED << route, filePaths, outputPath, uploadDir, deleteErrors, nextErrors >>
  /\ UNCHANGED << convVars, extVars, asmVars >>

\* deleteFile: fs.pathExists answers.
DeleteFileExists ==
  /\ spc = "cleanup"
  /\ \E p \in DOMAIN dpc :
       /\ dpc[p] = "exists"
       /\ dpc' = [dpc EXCEPT ![p] = IF p \in uploadDir THEN "unlink" ELSE "done"]
  /\ UNCHANGED << spc, route, filePaths, outputPath, uploadDir, downloadErr, deleteErrors,
                  nextErrors >>
  /\ UNCHANGED << convVars, extVars, asmVars >>

\* deleteFile: fs.unlink removes the file.
DeleteFileUnlinks ==
  /\ spc = "cleanup"
  /\ \E p \in DOMAIN dpc :
       /\ dpc[p] = "unlink"
       /\ uploadDir' = uploadDir \ { p }
       /\ dpc' = [dpc EXCEPT ![p] = "done"]
  /\ UNCHANGED << spc, route, filePaths, outputPath, downloadErr, deleteErrors, nextErrors >>
  /\ UNCHANGED << convVars, extVars, asmVars >>

\* deleteFile: fs.unlink rejects (the file is busy, the permission is
\* missing); the catch logs it and the file stays.
DeleteFileFails ==
  /\ spc = "cleanup"
  /\ \E p \in DOMAIN dpc :
       /\ dpc[p] = "unlink"
       /\ deleteErrors' = deleteErrors \cup { p }
       /\ dpc' = [dpc EXCEPT ![p] = "done"]
  /\ UNCHANGED << spc, route, filePaths, outputPath, uploadDir, downloadErr, nextErrors >>
  /\ UNCHANGED << convVars, extVars, asmVars >>

\* Promise.all of cleanupFiles resolves; the callback passes a transfer error
\* to next and ends.
CleanupResolves ==
  /\ spc = "cleanup"
  /\ route # "split"
  /\ \A p \in DOMAIN dpc : dpc[p] = "done"
  /\ nextErrors' = IF downloadErr THEN Append(nextErrors, "transfer") ELSE nextErrors
  /\ spc' = "done"
  /\ UNCHANGED << route, filePaths, outputPath, uploadDir, downloadErr, dpc, deleteErrors >>
  /\ UNCHANGED << convVars, extVars, asmVars >>

\* splitController's callback after cleanupFiles: fs.remove takes the
\* directory of the pages away, then a transfer error goes to next.
SplitRemoveDir ==
  /\ spc = "cleanup"
  /\ route = "split"
  /\ \A p \in DOMAIN dpc : dpc[p] = "done"
  /\ uploadDir' = uploadDir \ SplitPages
  /\ nextErrors' = IF downloadErr THEN Append(nextErrors, "transfer") ELSE nextErrors
  /\ spc' = "done"
  /\ UNCHANGED << route, filePaths, outputPath, downloadErr, dpc, deleteErrors >>
  /\ UNCHANGED << convVars, extVars, asmVars >>

\* splitController's callback after cleanupFiles when fs.remove rejects: the
\* callback's promise rejects, nothing handles it and next is not called.
SplitRemoveRejects ==
  /\ spc = "cleanup"
  /\ route = "split"
  /\ \A p \in DOMAIN dpc : dpc[p] = "done"
  /\ spc' = "uncaught"
  /\ UNCHANGED << route, filePaths, outputPath, uploadDir, downloadErr, dpc, deleteErrors,
                  nextErrors >>
  /\ UNCHANGED << convVars, extVars, asmVars >>

SrvNext ==
  \/ MergeRejects \/ MergeDownloads \/ MergeFails
  \/ SplitRejects \/ SplitDownloads \/ SplitFails \/ SplitArchiveThrows
  \/ CompressRejects \/ CompressDownloads \/ CompressFails
  \/ ConvertRejects \/ ConvertDownloads \/ ConvertFails
  \/ DownloadCallback \/ DeleteFileExists \/ DeleteFileUnlinks \/ DeleteFileFails
  \/ CleanupResolves \/ SplitRemoveDir \/ SplitRemoveRejects


\* ------------------------------------------------------------ the inputs

\* Item lists given to createDocxFromContent directly.  The interface lets
\* width, height, extension and imageData be absent and puts no range on the
\* numbers; relId is the assembler's own field and is never set by a caller.
ImageItem(y, imageData, width, height, extension) ==
  Item("image", 0, y, Absent, imageData, width, height, extension, Absent, FALSE, FALSE, 0)

TextItem(y, text, fontSize, isBold) ==
  Item("text", 50 * PT, y, text, Absent, Some(40 * PT), Absent, Absent, fontSize, isBold,
       FALSE, 0)

\* (width, height) pairs: 100 x 50 points; far over 20 inches and negative;
\* zero and absent; under half an EMU on either side of zero; exactly 20
\* inches and one point more; just over half an EMU and zero.
DimChoices ==
  { << Some(100 * PT), Some(50 * PT) >>,
    << Some(10000 * PT), Some(-5 * PT) >>,
    << Some(0), Absent >>,
    << Some(3), Some(-3) >>,
    << Some(1440 * PT), Some(1441 * PT) >>,
    << Some(4), Some(0) >> }

AsmItems ==
  { ImageItem(700 * PT, Some(1), d[1], d[2], Some("png")) : d \in DimChoices }
  \cup { ImageItem(700 * PT, Some(2), Some(100 * PT), Some(50 * PT), Absent),
         ImageItem(685 * PT, Some(3), Some(20 * PT), Absent, Some("jpg")),
         ImageItem(695 * PT, Absent, Some(100 * PT), Some(50 * PT), Some("png")),
         TextItem(700 * PT, Some(<< "a", "&", "b" >>), Some(12 * PT), FALSE),
         TextItem(689 * PT, Some(<< "<", "x0B", "\t", "'" >>), Absent, TRUE),
         TextItem(700 * PT, Some(<< >>), Some(12 * PT), FALSE) }

\* Characters of the texts: the five XML metacharacters, control characters
\* that are stripped and that are kept, and a letter.
TextChars == { "&", "<", ">", "\"", "'", "x00", "x0B", "\t", "\n", "a" }

\* Every text up to MaxChars, and three longer ones: an entity in the input
\* before control characters and a metacharacter, ampersands around an
\* entity, and the other control characters.
EscapeTexts ==
  SeqsUpTo(TextChars, MaxChars)
  \cup { << "&", "l", "t", ";", "x0B", "\t", "<" >>, << "&", "&", "a", "m", "p", ";", "&" >>,
         << "x08", "\r", "x0C", "x0E", "x1F", "b" >> }

\* One text item per text.
EscapeLists == { << TextItem(700 * PT, Some(t), Some(12 * PT), FALSE) >> : t \in EscapeTexts }

\* Operators of a page: [fn, args], args Absent for null.
Operator(fn, args) == [fn |-> fn, args |-> args]

T1 == << 2, 0, 0, 3, (21 * PT) \div 2, 20 * PT >>
T2 == << 0, 1, -1, 0, 0, 100 * PT >>

OpChoices ==
  { Operator("save", Some(<< >>)),
    Operator("restore", Some(<< >>)),
    Operator("transform", Some(T1)),
    Operator("transform", Some(T2)),
    Operator("transform", Absent),
    Operator("paintImageXObject", Some(<< "Im1" >>)),
    Operator("paintImageXObject", Some(<< "ImGone" >>)),
    Operator("showText", Some(<< >>)) }

\* A page as PDF.js answers for it: text Absent when getPage or
\* getTextContent rejects, ops Absent when getOperatorList rejects.
Page(text, ops) == [text |-> text, ops |-> ops]

\* One page without text and with every operator list up to MaxOps.
WalkDocs == { << Page(Some(<< >>), Some(o)) >> : o \in SeqsUpTo(OpChoices, MaxOps) }

\* Transforms with shear, mirroring and a singular one, for documents that
\* paint nothing.
AnyTransforms ==
  { << 1, 1, 0, 1, 3 * PT, 4 * PT >>,
    << 2, -1, 1, 3, -5 * PT, 0 >>,
    << 0, 0, 0, 0, 7 * PT, 7 * PT >>,
    << -1, 0, 2, 1, PT \div 2, -PT >>,
    T1, T2 }

\* One page: a transform, then two transforms inside a save/restore pair.
ComposeDocs ==
  { << Page(Some(<< >>),
            Some(<< Operator("transform", Some(m)), Operator("save", Some(<< >>)),
                    Operator("transform", Some(a)), Operator("transform", Some(b)),
                    Operator("restore", Some(<< >>)) >>)) >> :
      m \in AnyTransforms, a \in AnyTransforms, b \in AnyTransforms }

\* Text runs of PDF.js: [str, transform, width, fontName].
Run(str, x, y, size, width, fontName) ==
  [str |-> str, transform |-> << size, 0, 0, size, x, y >>, width |-> width,
   fontName |-> fontName]

RunHello == Run(<< "H", "i" >>, 50 * PT, 700 * PT, 12, 40 * PT, Some("g_d0_f1"))
RunWorld == Run(<< " ", "W" >>, 92 * PT, 700 * PT, 12, 30 * PT, Some("g_d0_f1"))
RunBlank == Run(<< " ", "\t" >>, 60 * PT, 650 * PT, 12, 8 * PT, Some("g_d0_f1"))
RunBold == Run(<< "B" >>, 50 * PT, 650 * PT, 14, 10 * PT, Some("g_d0_f2"))

RunA == Run(<< "a" >>, 50 * PT, 703 * PT, 12, 10 * PT, Some("g_d0_f1"))
RunB == Run(<< "b" >>, 70 * PT, 706 * PT, 13, 10 * PT, Some("g_d0_f1"))
RunC == Run(<< "c" >>, 61 * PT, 697 * PT, 15, 5 * PT, Some("g_d0_f1"))
RunD == Run(<< "d" >>, 80 * PT, 704 * PT, 15, 5 * PT, Some("g_d0_f1"))
RunE == Run(<< "e" >>, 50 * PT, 692 * PT, 12, 10 * PT, Some("g_d0_f1"))
RunF == Run(<< "f" >>, 60 * PT, 702 * PT, 12, 5 * PT, Some("g_d0_f1"))
RunTab == Run(<< "t", "\t" >>, 10 * PT, 700 * PT, 12, 10 * PT, Some("g_d0_f1"))
RunZero == Run(<< "z" >>, 50 * PT, 600 * PT, 0, 10 * PT, Some("g_d0_f1"))
RunZeroNext == Run(<< "o" >>, 61 * PT, 600 * PT, 0, 5 * PT, Some("g_d0_f1"))

\* Runs on neighbouring lines, in sizes and faces that merge and that do not,
\* three of them (RunB, RunF, RunHello) ordered in a cycle by the comparator,
\* one ending in a tab, and two of an estimated font size of 0.
MergeRuns ==
  { RunHello, RunWorld, RunA, RunB, RunC, RunD, RunE, RunF, RunBold, RunTab, RunZero,
    RunZeroNext }

\* One page without operators and with every run list up to MaxRuns.
MergeDocs == { << Page(Some(r), Some(<< >>)) >> : r \in SeqsUpTo(MergeRuns, MaxRuns) }

PageTexts ==
  { Absent, Some(<< >>), Some(<< RunHello, RunWorld >>), Some(<< RunBlank, RunBold >>),
    Some(<< RunBold, RunD, RunHello >>) }

PageOps ==
  { Absent, Some(<< >>),
    Some(<< Operator("paintJpegXObject", Some(<< "Im2" >>)) >>),
    Some(<< Operator("transform", Some(T1)), Operator("paintImageXObject", Some(<< "Im1" >>)),
            Operator("paintInlineImageXObject", Absent),
            Operator("paintImageXObject", Some(<< "Im2" >>)) >>),
    Some(<< Operator("save", Some(<< >>)), Operator("transform", Some(T2)),
            Operator("save", Some(<< >>)), Operator("paintImageXObject", Some(<< "Im1" >>)) >>) }

Pages == { Page(t, o) : t \in PageTexts, o \in PageOps }

PageDocs == SeqsUpTo(Pages, MaxPages)

\* Objects an image operator cannot emit (missing, without size, without a
\* drawing context, not drawable, not encodable) and one it can.
SkipNames == { "ImGone", "ImZero", "ImNoCtx", "ImBad", "ImNoBlob", "Im2" }

\* One page: a transform and a save, an image operator of each kind on each
\* of these objects, then an image that resolves.
SkipDocs ==
  { << Page(Some(<< >>),
            Some(<< Operator("transform", Some(T1)), Operator("save", Some(<< >>)),
                    Operator(fn, Some(<< name >>)),
                    Operator("paintImageXObject", Some(<< "Im1" >>)) >>)) >> :
      fn \in PaintOps, name \in SkipNames }

Docs == WalkDocs \cup ComposeDocs \cup PageDocs \cup SkipDocs \cup MergeDocs

\* ------------------------------------------------------ specifications

\* convertPdf(file, 'word') on a document.
Init ==
  /\ cpc = "start"
  /\ progressLog = << >>
  /\ pdf \in Docs
  /\ epc = "idle"
  /\ i = 1
  /\ j = 1
  /\ currentMatrix = Identity
  /\ transformStack = << >>
  /\ pageTextItems = << >>
  /\ pageImageItems = << >>
  /\ allItems = << >>
  /\ AsmIdle
  /\ SrvIdle

Next ==
  ConvStart \/ ExtNext \/ ConvGenerate \/ AsmNext \/ ConvDone \/ ConvGenerateRejects

Spec == Init /\ [][Next]_vars

\* createDocxFromContent on an item list of its own.
InitAsm ==
  /\ cpc = "none"
  /\ progressLog = << >>
  /\ ExtIdle
  /\ \E list \in SeqsUpTo(AsmItems, MaxItems) \cup EscapeLists : AsmInit(list)
  /\ SrvIdle

SpecAsm == InitAsm /\ [][AsmNext]_vars

\* A merge request of up to MaxFiles files, or a request of at most one file
\* to one of the other routes.
InitServer ==
  /\ cpc = "none"
  /\ progressLog = << >>
  /\ ExtIdle
  /\ AsmIdle
  /\ \/ \E n \in 0..MaxFiles : SrvRequest("merge", n)
     \/ \E n \in 0..1, r \in { "compress", "split" } \cup OfficeRoutes : SrvRequest(r, n)

SpecServer == InitServer /\ [][SrvNext]_vars

\* The server with every handler, callback and deleteFile running on once
\* it can: the event loop leaves no ready continuation waiting for ever.
SpecServerFair == SpecServer /\ WF_vars(SrvNext)


\* ------------------------------------- claims on createDocxFromContent

\* The runs of a list of paragraphs.
RunsOf(paragraphs) ==
  UNION { { paragraphs[p][r] : r \in 1..Len(paragraphs[p]) } : p \in 1..Len(paragraphs) }

\* Every run emitted so far: flushed, being built, or written to the part.
BodyRuns ==
  RunsOf(bodyContent) \cup RunsOf(<< currentParaContent >>) \cup RunsOf(documentXml)

ImageRuns == { r \in BodyRuns : r.kind = "image" }

\* The items that get a media file: images that carry pixel data.
EmbeddedBefore(n) ==
  { m \in 1..n : items[m].type = "image" /\ items[m].imageData # Absent }

\* C1: every relationship id an image run of the body references (r:embed) is
\* declared as an image Relationship in word/_rels/document.xml.rels.
C1_EmbedsDeclared ==
  \A r \in ImageRuns :
    \E n \in 1..Len(docRels) : docRels[n].id = r.embed /\ docRels[n].type = "image"

\* C1 witness: a finished package whose body references two different ids,
\* made from a list that also holds an image without pixel data.
C1_Witness ==
  /\ apc = "done"
  /\ \E r1 \in RunsOf(documentXml), r2 \in RunsOf(documentXml) :
       r1.kind = "image" /\ r2.kind = "image" /\ r1.embed # r2.embed
  /\ \E n \in 1..Len(items) : items[n].type = "image" /\ items[n].imageData = Absent

\* C2: once the package is written, every extension of a file under
\* word/media has a Default entry in [Content_Types].xml, so an image whose
\* extension is absent is stored under a registered raster extension.
C2_MediaTypesRegistered ==
  apc = "done" => \A f \in zipMedia : f.ext \in contentTypes

\* C3: the n-th item that carries pixel data gets the id rIdImg<n> (n counted
\* in document order), the ids declared in document.xml.rels are pairwise
\* distinct, and no image id is rId1 or rId2.
C3_IdsCountUp ==
  /\ \A n \in 1..Len(processedItems) :
       IF n \in EmbeddedBefore(n)
       THEN processedItems[n].relId = Some("rIdImg" \o ToString(Cardinality(EmbeddedBefore(n))))
       ELSE processedItems[n].relId = Absent
  /\ \A n \in 1..Len(imageRels) :
       /\ imageRels[n].id = "rIdImg" \o ToString(n)
       /\ imageRels[n].id \notin { "rId1", "rId2" }
  /\ \A m \in 1..Len(docRels), n \in 1..Len(docRels) : m # n => docRels[m].id # docRels[n].id

\* C3 witness: a finished package with three embedded images.
C3_Witness ==
  /\ apc = "done"
  /\ Len(imageRels) = 3
  /\ Len(docRels) = 4

\* Math.round(12700 * w) for a length w, computed from the whole and the
\* fractional points.
RoundEmu(w) == 12700 * (w \div PT) + ((127 * (w % PT) + 500) \div 1000)

\* The extent C4 states for a dimension of w.
StatedExtent(w) ==
  IF w <= 0 THEN 1000
  ELSE IF w > (18288000 \div 12700) * PT THEN 18288000
  ELSE RoundEmu(w)

\* C4 as stated: each extent of an image run is 1000 for a non-positive
\* dimension, 18288000 above 20 inches and round(12700 * w) otherwise.
C4_ExtentsAsStated ==
  \A r \in ImageRuns :
    /\ items[r.item].width # Absent => r.cx = StatedExtent(items[r.item].width[1])
    /\ items[r.item].height # Absent => r.cy = StatedExtent(items[r.item].height[1])

\* The extent of a dimension: zero and absent stand for 200 points, and only
\* a rounded value below zero is replaced by 1000.
ActualExtent(dim) ==
  LET w == IF dim = Absent \/ dim = Some(0) THEN 200 * PT ELSE dim[1] IN
    IF RoundEmu(w) < 0 THEN 1000
    ELSE IF RoundEmu(w) > 18288000 THEN 18288000
    ELSE RoundEmu(w)

\* C4 amended: each extent, computed from its own dimension w, is 1000 when
\* round(12700 * w) is negative, 2540000 when w is zero or absent, 18288000
\* when round(12700 * w) exceeds it and round(12700 * w) otherwise; 10000
\* points give 18288000, -5 points give 1000, 100 x 50 points give
\* 1270000 x 635000.
C4_Extents ==
  \A r \in ImageRuns :
    LET w == items[r.item].width
        h == items[r.item].height
    IN /\ r.cx = ActualExtent(w)
       /\ r.cy = ActualExtent(h)
       /\ w = Some(10000 * PT) => r.cx = 18288000
       /\ h = Some(-5 * PT) => r.cy = 1000
       /\ w = Some(100 * PT) /\ h = Some(50 * PT) => r.cx = 1270000 /\ r.cy = 635000
       /\ w = Some(0) => r.cx = 2540000
       /\ h = Absent => r.cy = 2540000
       /\ r.cx >= 0 /\ r.cx <= 18288000

\* C4 witness: a finished body with a run clamped at both ends, a run of a
\* zero width and a run whose tiny dimensions round to 0.
C4_Witness ==
  /\ apc = "done"
  /\ \E r \in RunsOf(documentXml) : r.kind = "image" /\ r.cx = 18288000 /\ r.cy = 1000
  /\ \E r \in RunsOf(documentXml) :
       r.kind = "image" /\ items[r.item].width = Some(0) /\ r.cx = 2540000
  /\ \E r \in RunsOf(documentXml) : r.kind = "image" /\ r.cx = 0 /\ r.cy = 0


\* ------------------------------------- claims on extractContentFromPdf

\* The operator walk of page i is under way or over.
Walking == epc \in { "ops", "merge" } /\ pdf[i].ops # Absent

\* The operators of page i interpreted so far.
OpsDone == SubSeq(pdf[i].ops[1], 1, j - 1)

\* ops without the restores that meet an empty stack (depth saves are open).
RECURSIVE WithoutSurplus(_, _)
WithoutSurplus(ops, depth) ==
  IF ops = << >> THEN << >>
  ELSE LET op == Head(ops) IN
         IF op.fn = "restore"
         THEN IF depth = 0 THEN WithoutSurplus(Tail(ops), 0)
              ELSE << op >> \o WithoutSurplus(Tail(ops), depth - 1)
         ELSE << op >> \o WithoutSurplus(Tail(ops), IF op.fn = "save" THEN depth + 1 ELSE depth)

\* Matrix and stack after well-formed ops, every restore popping a saved state.
RECURSIVE BalancedRun(_, _, _)
BalancedRun(ops, m, stack) ==
  IF ops = << >> THEN << m, stack >>
  ELSE LET op == Head(ops) IN
         IF op.fn = "save" THEN BalancedRun(Tail(ops), m, Append(stack, m))
         ELSE IF op.fn = "restore"
              THEN BalancedRun(Tail(ops), stack[Len(stack)], SubSeq(stack, 1, Len(stack) - 1))
              ELSE IF op.fn = "transform"
                   THEN BalancedRun(Tail(ops), transform(m, op.args[1]), stack)
                   ELSE BalancedRun(Tail(ops), m, stack)

CountOf(ops, fn) == Cardinality({ n \in 1..Len(ops) : ops[n].fn = fn })

\* C5: after every operator, the current matrix and the saved-state stack are
\* those of the same operators with the restores that met an empty stack
\* removed: such a restore changes nothing.
C5_SurplusRestoresIgnored ==
  Walking => << currentMatrix, transformStack >>
               = BalancedRun(WithoutSurplus(OpsDone, 0), Identity, << >>)

\* C5 witness: a walk that saved and transformed, and executed more restores
\* than saves.
C5_Witness ==
  /\ Walking
  /\ CountOf(OpsDone, "save") >= 1
  /\ CountOf(OpsDone, "restore") > CountOf(OpsDone, "save")
  /\ currentMatrix # Identity

\* A point under an affine matrix.
ApplyPoint(m, pt) ==
  << m[1] * pt[1] + m[3] * pt[2] + m[5], m[2] * pt[1] + m[4] * pt[2] + m[6] >>

Points == { << 0, 0 >>, << PT, 0 >>, << 0, PT >>, << 3 * PT, -2 * PT >> }

\* The last three operators interpreted are save, transform a, transform b.
TwoTransformsInSave ==
  /\ Walking
  /\ j >= 4
  /\ pdf[i].ops[1][j - 3].fn = "save"
  /\ pdf[i].ops[1][j - 2].fn = "transform"
  /\ pdf[i].ops[1][j - 1].fn = "transform"

\* C6: after save, transform a, transform b the current matrix is the saved
\* matrix composed once with the product of a and b, and it maps every point
\* where the saved matrix maps the point's image under b, then a.
C6_Composition ==
  TwoTransformsInSave =>
    LET m0 == transformStack[Len(transformStack)]
        a == pdf[i].ops[1][j - 2].args[1]
        b == pdf[i].ops[1][j - 1].args[1]
    IN /\ currentMatrix = transform(m0, transform(a, b))
       /\ \A pt \in Points :
            ApplyPoint(currentMatrix, pt) = ApplyPoint(m0, ApplyPoint(a, ApplyPoint(b, pt)))

\* C6 witness: two transforms that do not commute, applied inside a save
\* under a matrix that is not the identity.
C6_Witness ==
  /\ TwoTransformsInSave
  /\ transformStack[Len(transformStack)] # Identity
  /\ LET a == pdf[i].ops[1][j - 2].args[1]
         b == pdf[i].ops[1][j - 1].args[1]
     IN transform(a, b) # transform(b, a)

\* The items of a list: the elements of the sequence.
Elems(list) == { list[n] : n \in 1..Len(list) }

\* C7: every text item the extractor has accumulated or returned holds a
\* character that is not white space.
C7_NoBlankText ==
  \A t \in Elems(allItems) \cup Elems(items) :
    t.type = "text" => \E n \in 1..Len(t.text[1]) : t.text[1][n] \notin JsWhiteSpace

\* C7 witness: the extractor returned a merged text item for a document that
\* holds a run of white space only.
C7_Witness ==
  /\ cpc = "assemble"
  /\ \E t \in Elems(items) : t.type = "text" /\ Len(t.text[1]) >= 4
  /\ \E p \in 1..Len(pdf) : \E r \in Elems(pdf[p].text[1]) :
       r.str # << >> /\ \A n \in 1..Len(r.str) : r.str[n] \in JsWhiteSpace

\* list holds the items of its pages in page order.
InPageOrder(list) ==
  \A m \in 1..Len(list), n \in 1..Len(list) : m < n => list[m].src <= list[n].src

\* C8: the accumulated list, and the list handed to the assembler, hold the
\* items of page 1, then those of page 2, and so on.
C8_PageOrder == InPageOrder(allItems) /\ InPageOrder(items)

\* C8 witness: the assembler was handed an item of page 1 placed before an
\* item of page 2 that lies higher on its page.
C8_Witness ==
  /\ cpc = "assemble"
  /\ \E m \in 1..Len(items), n \in 1..Len(items) :
       m < n /\ items[m].src = 1 /\ items[n].src = 2 /\ items[m].y < items[n].y

\* The operator interpretation of page p throws: getOperatorList rejects or
\* an operator throws.
PageThrew(p) ==
  pdf[p].ops = Absent \/ \E n \in 1..Len(pdf[p].ops[1]) : Throws(pdf[p].ops[1][n])

\* The operators of page p interpreted before the first one that throws.
OpsBeforeThrow(p) ==
  IF pdf[p].ops = Absent THEN << >>
  ELSE LET ops == pdf[p].ops[1]
           first == CHOOSE n \in 1..Len(ops) :
                      Throws(ops[n]) /\ \A m \in 1..(n - 1) : ~Throws(ops[m])
       IN SubSeq(ops, 1, first - 1)

\* The positions of operators that paint an image that can be emitted.
Painting(ops) ==
  { n \in 1..Len(ops) :
      ops[n].fn \in PaintOps /\ ~Throws(ops[n]) /\ PaintedItems(ops[n], Identity, 0) # << >> }

\* The positions in allItems of the items of page p of a type.
ItemsOfPage(p, type) ==
  { n \in 1..Len(allItems) : allItems[n].src = p /\ allItems[n].type = type }

\* C9 as stated: a page whose operator interpretation threw has no item in
\* the output.
C9_ThrowingPageDropped ==
  \A p \in 1..Len(pdf) :
    p < i /\ PageThrew(p) => ItemsOfPage(p, "text") \cup ItemsOfPage(p, "image") = {}

\* C9 amended: when the operator interpretation of a page throws, the output
\* holds no image of the failing operator or of a later operator of the page,
\* but it keeps the images emitted before the failing operator and the page's
\* text.
C9_ThrowEndsWalkOnly ==
  \A p \in 1..Len(pdf) :
    p < i /\ PageThrew(p) =>
      /\ Cardinality(ItemsOfPage(p, "image")) = Cardinality(Painting(OpsBeforeThrow(p)))
      /\ { allItems[n].imageData[1] : n \in ItemsOfPage(p, "image") }
           = { Objs(OpsBeforeThrow(p)[n].args[1][1]).data : n \in Painting(OpsBeforeThrow(p)) }
      /\ \A r \in Elems(pdf[p].text[1]) :
           Len(trim(r.str)) > 0 =>
             \E n \in ItemsOfPage(p, "text") : includes(allItems[n].text[1], r.str)

\* C9 witness: a finished page whose walk threw after an image was emitted
\* and before an operator that would have painted, and which has text.
C9_Witness ==
  \E p \in 1..Len(pdf) :
    /\ p < i
    /\ pdf[p].ops # Absent
    /\ PageThrew(p)
    /\ ItemsOfPage(p, "image") # {}
    /\ ItemsOfPage(p, "text") # {}
    /\ Cardinality(Painting(pdf[p].ops[1])) > Cardinality(Painting(OpsBeforeThrow(p)))

\* C10: the conversion never aborts because a page failed: it does not
\* reject, and when it ends every page has been walked and the package holds
\* its body part.
C10_NeverAborts ==
  /\ cpc # "rejected"
  /\ epc # "rejected"
  /\ cpc = "done" => i = Len(pdf) + 1 /\ "word/document.xml" \in zipParts

\* The object an image operator names.
ObjOf(op) == Objs(op.args[1][1])

\* An image operator that cannot emit: its pixel source does not resolve, has
\* no width or height, or cannot be drawn or encoded.
Unpaintable(op) ==
  /\ op.fn \in PaintOps
  /\ op.args # Absent
  /\ \/ ~ObjOf(op).resolves
     \/ ObjOf(op).width = 0 \/ ObjOf(op).height = 0
     \/ ~ObjOf(op).ctx \/ ~ObjOf(op).draws \/ ~ObjOf(op).blob

\* The pixel data of the images that ops can emit, in operator order.
EmittableData(ops) ==
  LET good == SelectSeq(ops, LAMBDA op : op.fn \in PaintOps /\ op.args # Absent
                                           /\ ~Unpaintable(op))
  IN [n \in 1..Len(good) |-> ObjOf(good[n]).data]

\* The pixel data of a list of image items.
DataOf(list) == [n \in 1..Len(list) |-> list[n].imageData[1]]

\* C11: an image operator whose pixel source is unresolved, has zero width
\* or height, or fails to be drawn or encoded pushes no image item and leaves
\* the current matrix and the stack as they were, and the walk goes on to the
\* next operator; the images of the page are those of the operators that can
\* emit, the ones after a skipped operator included.
C11_FailedImageSkipped ==
  /\ [](Walking => DataOf(pageImageItems) = EmittableData(OpsDone))
  /\ [][(epc = "ops" /\ Unpaintable(Op)) =>
          /\ pageImageItems' = pageImageItems
          /\ currentMatrix' = currentMatrix
          /\ transformStack' = transformStack
          /\ j' = j + 1
          /\ epc' = IF j < Len(pdf[i].ops[1]) THEN "ops" ELSE "merge"]_vars

\* C11 witness: under a transformed matrix and a saved state, an image
\* operator was skipped for a drawing failure and a later operator emitted
\* its image.
C11_Witness ==
  /\ Walking
  /\ currentMatrix # Identity
  /\ transformStack # << >>
  /\ pageImageItems # << >>
  /\ \E n \in 1..(j - 1) :
       /\ Unpaintable(OpsDone[n])
       /\ ObjOf(OpsDone[n]).resolves /\ ~ObjOf(OpsDone[n]).draws
       /\ \E m \in (n + 1)..(j - 1) :
            OpsDone[m].fn \in PaintOps /\ OpsDone[m].args # Absent /\ ~Unpaintable(OpsDone[m])

\* C12: a malformed operator (a transform or image operator without
\* arguments) is skipped and does not end the walk of its page: once a page
\* whose operator list was read is finished, every operator was interpreted
\* and the page has one image per operator that can emit, those after the
\* malformed operator included.
C12_MalformedSkipped ==
  /\ \A p \in 1..Len(pdf) :
       (p < i /\ pdf[p].ops # Absent) =>
         Cardinality(ItemsOfPage(p, "image")) = Len(EmittableData(pdf[p].ops[1]))
  /\ (epc = "merge" /\ pdf[i].ops # Absent) => j = Len(pdf[i].ops[1]) + 1

\* The per-page reports made so far: progressLog after convertPdf's first 10.
PageReports == SubSeq(progressLog, 2, Len(progressLog))

\* C13: progress is reported only after a page's walk has completed: while
\* the extractor runs, there are no more page reports than pages fully
\* processed, and the report that carries 100 percent (50 for convertPdf's
\* caller) is not made before the last page is processed.
C13_ProgressAfterPage ==
  cpc \in { "extract", "rejected" } =>
    /\ Len(PageReports) <= i - 1
    /\ \A n \in 1..Len(PageReports) :
         PageReports[n] = AnalyzePercent(100) => i > Len(pdf)

\* The items of page p in the accumulated list.
PageItems(p) == SelectSeq(allItems, LAMBDA t : t.src = p)

\* No two neighbours of list satisfy the merge test.
NoAdjacentMergeable(list) ==
  \A n \in 1..(Len(list) - 1) : ~Mergeable(list[n], list[n + 1])

\* list is unchanged by a further merge pass.
MergeFixedPoint(list) == MergedItems(list) = list /\ NoAdjacentMergeable(list)

\* C14 as stated: a further merge pass changes neither the items of a page
\* nor the whole-document list, and no two neighbours of either satisfy the
\* merge condition.
C14_MergeFixedPointAll ==
  /\ \A p \in 1..Len(pdf) : p < i => MergeFixedPoint(PageItems(p))
  /\ MergeFixedPoint(allItems)

\* C14 amended: a further merge pass leaves the items of each page as they
\* are, and no two neighbours among the items of one page satisfy the merge
\* condition (the last item of a page and the first of the next may).
C14_MergeFixedPointPerPage ==
  \A p \in 1..Len(pdf) : p < i => MergeFixedPoint(PageItems(p))

\* C14 witness: the extractor returned, for a page of three text runs, an
\* item merged from two of them next to a text item it was not merged with.
C14_Witness ==
  /\ cpc = "assemble"
  /\ Len(pdf) = 1 /\ Len(pdf[1].text[1]) = 3
  /\ Len(items) = 2
  /\ items[1].type = "text" /\ items[2].type = "text"
  /\ \E n \in 1..2 : \E r1 \in Elems(pdf[1].text[1]), r2 \in Elems(pdf[1].text[1]) :
       r1 # r2 /\ includes(items[n].text[1], r1.str) /\ includes(items[n].text[1], r2.str)

\* ------------------------------------------- claims on the paragraphs

\* The paragraphs emitted so far: flushed, being built, or written.
Paragraphs == Elems(bodyContent) \cup { currentParaContent } \cup Elems(documentXml)

\* The Y coordinates of the items whose runs a paragraph holds.
ParaY(para) == { processedItems[para[r].item].y : r \in 1..Len(para) }

\* C15 as stated: two items whose Y coordinates differ by more than 10 are
\* never in the same paragraph.
C15_FarApartSplit ==
  \A para \in Paragraphs : \A y1 \in ParaY(para), y2 \in ParaY(para) : Abs(y1 - y2) <= 10 * PT

\* C15 amended: every item of the paragraph being built lies within 10 of
\* currentY, the Y of the item that opened the paragraph; an item further
\* than 10 from currentY closes the paragraph and opens the next; so two
\* items of one paragraph differ by at most 20.
C15_WithinTenOfAnchor ==
  /\ [](/\ \A y \in ParaY(currentParaContent) : Abs(y - currentY[1]) <= 10 * PT
        /\ \A para \in Paragraphs :
             \A y1 \in ParaY(para), y2 \in ParaY(para) : Abs(y1 - y2) <= 20 * PT)
  /\ [][(/\ apc = "body" /\ k <= Len(processedItems)
         /\ Abs(processedItems[k].y - currentY[1]) > 10 * PT) =>
          /\ bodyContent' = Flushed(bodyContent, currentParaContent)
          /\ currentY' = Some(processedItems[k].y)
          /\ \A r \in 1..Len(currentParaContent') : currentParaContent'[r].item = k]_vars

\* C15 witness: the body written for a page of the extractor holds a
\* paragraph with two items more than 10 apart, both after the item that
\* opened it.
C15_Witness ==
  /\ cpc = "assemble" /\ apc = "done"
  /\ \E para \in Elems(documentXml) :
       /\ Len(para) = 3
       /\ processedItems[para[2].item].y - processedItems[para[3].item].y > 10 * PT
       /\ Abs(processedItems[para[1].item].y - processedItems[para[2].item].y) <= 10 * PT
       /\ Abs(processedItems[para[1].item].y - processedItems[para[3].item].y) <= 10 * PT

\* ------------------------------------------------ claims on run text

\* What C16 states for one character: nothing for a stripped control
\* character, the entity for a metacharacter, the character itself otherwise.
EscapedChar(c) ==
  CASE c \in { "x00", "x08", "x0B", "x0C", "x0E", "x1F" } -> << >>
    [] c = "&" -> << "&", "a", "m", "p", ";" >>
    [] c = "<" -> << "&", "l", "t", ";" >>
    [] c = ">" -> << "&", "g", "t", ";" >>
    [] c = "\"" -> << "&", "q", "u", "o", "t", ";" >>
    [] c = "'" -> << "&", "a", "p", "o", "s", ";" >>
    [] OTHER -> << c >>

RECURSIVE Escaped(_)
Escaped(str) == IF str = << >> THEN << >> ELSE EscapedChar(Head(str)) \o Escaped(Tail(str))

Entities ==
  { << "&", "a", "m", "p", ";" >>, << "&", "l", "t", ";" >>, << "&", "g", "t", ";" >>,
    << "&", "q", "u", "o", "t", ";" >>, << "&", "a", "p", "o", "s", ";" >> }

TextRuns == { r \in BodyRuns : r.kind = "text" }

\* C16: the text of every text run is the item's text with the characters
\* 0x00-0x08, 0x0B, 0x0C, 0x0E-0x1F removed (tab, line feed and carriage
\* return kept) and each of & < > " ' replaced by its entity, once: the run
\* text holds no raw < > " ' and every & in it begins one of the five
\* entities.
C16_TextEscaped ==
  \A r \in TextRuns :
    /\ r.text = Escaped(processedItems[r.item].text[1])
    /\ \A n \in 1..Len(r.text) :
         /\ r.text[n] \notin { "<", ">", "\"", "'" } \cup StrippedChars
         /\ r.text[n] = "&" =>
              \E e \in Entities : SubSeq(r.text, n, n + Len(e) - 1) = e
    /\ \A c \in { "\t", "\n", "\r" } :
         Cardinality({ n \in 1..Len(r.text) : r.text[n] = c })
           = Cardinality({ n \in 1..Len(processedItems[r.item].text[1]) :
                             processedItems[r.item].text[1][n] = c })

\* C16 witness: a written run whose item text held an entity already, a
\* stripped and a kept control character and a metacharacter.
C16_Witness ==
  /\ apc = "done"
  /\ \E r \in RunsOf(documentXml) :
       /\ r.kind = "text"
       /\ items[r.item].text[1] = << "&", "l", "t", ";", "x0B", "\t", "<" >>
       /\ r.text = << "&", "a", "m", "p", ";", "l", "t", ";", "\t", "&", "l", "t", ";" >>

\* The content blocks of an item list: item numbers grouped in list order, a
\* new block at each item more than 10 from the Y that opened the block.
RECURSIVE BlocksFrom(_, _, _, _)
BlocksFrom(list, n, anchorY, blocks) ==
  IF n > Len(list) THEN blocks
  ELSE IF Abs(list[n].y - anchorY) > 10 * PT
       THEN BlocksFrom(list, n + 1, list[n].y, Append(blocks, << n >>))
       ELSE BlocksFrom(list, n + 1, anchorY,
                       [blocks EXCEPT ![Len(blocks)] = Append(@, n)])

Blocks(list) ==
  IF list = << >> THEN << >> ELSE BlocksFrom(list, 2, list[1].y, << << 1 >> >>)

\* The item numbers of the runs of paragraphs, paragraph by paragraph.
ItemNumbers(paragraphs) ==
  [p \in 1..Len(paragraphs) |-> [r \in 1..Len(paragraphs[p]) |-> paragraphs[p][r].item]]

RECURSIVE Flatten(_)
Flatten(seqs) == IF seqs = << >> THEN << >> ELSE Head(seqs) \o Flatten(Tail(seqs))

\* C17: for the items the extractor hands over, the body holds one paragraph
\* per content block and in each paragraph one run per item of the block, a
\* text run for a text item and an image run for an image item, in the order
\* of the items: none is dropped, duplicated or moved.
C17_OneRunPerItem ==
  cpc \in { "assemble", "done" } =>
    /\ \A n \in 1..Len(processedItems) : [processedItems[n] EXCEPT !.relId = Absent] = items[n]
    /\ apc = "body" =>
         Flatten(ItemNumbers(bodyContent \o << currentParaContent >>)) = [n \in 1..(k - 1) |-> n]
    /\ apc = "done" =>
         /\ Len(processedItems) = Len(items)
         /\ ItemNumbers(documentXml) = Blocks(items)
         /\ \A r \in RunsOf(documentXml) : r.kind = items[r.item].type

\* C17 witness: a written body of three paragraphs, the first of two text
\* runs, the last of an image run.
C17_Witness ==
  /\ cpc = "assemble" /\ apc = "done"
  /\ Len(documentXml) = 3
  /\ Len(documentXml[1]) = 2
  /\ documentXml[1][1].kind = "text" /\ documentXml[1][2].kind = "text"
  /\ documentXml[3][1].kind = "image"

\* The parts every package holds.
RequiredParts ==
  { "[Content_Types].xml", "_rels/.rels", "word/_rels/document.xml.rels",
    "word/styles.xml", "word/document.xml" }

\* C18: with no content item the assembler does not stop on an error (each
\* of its steps can be taken until it is done), and the package it writes
\* holds the content types, the package relationships, the document
\* relationships with the styles relationship alone, the styles and a body of
\* no paragraph.
C18_EmptyPackage ==
  (apc # "idle" /\ items = << >>) =>
    /\ apc # "done" => ENABLED AsmNext
    /\ apc = "done" =>
         /\ RequiredParts \subseteq zipParts
         /\ { "rels", "xml" } \subseteq contentTypes
         /\ docRels = << [id |-> "rId2", type |-> "styles", target |-> "styles.xml"] >>
         /\ zipMedia = {}
         /\ documentXml = << >>

\* C18 witness: a package written for a document of two pages that gave no
\* item, one of them without a readable operator list.
C18_Witness ==
  /\ cpc = "assemble" /\ apc = "done"
  /\ items = << >>
  /\ Len(pdf) = 2
  /\ \E p \in 1..2 : pdf[p].ops = Absent
  /\ RequiredParts \subseteq zipParts

\* ------------------------------------------------ claims on the server

\* The files of the request in the upload directory: the uploaded inputs and
\* the generated output.
RequestFiles ==
  { filePaths[n] : n \in 1..Len(filePaths) }
  \cup (IF outputPath = Absent THEN {} ELSE { outputPath[1] })

\* The download callback has run to its end.
DownloadOver == spc = "done"

StatedProduct(m, n) ==
  LET a1 == m[1]  b1 == m[2]  c1 == m[3]  d1 == m[4]  e1 == m[5]  f1 == m[6]
      a2 == n[1]  b2 == n[2]  c2 == n[3]  d2 == n[4]  e2 == n[5]  f2 == n[6]
  IN << a1 * a2 + c1 * b2, b1 * a2 + d1 * b2, a1 * c2 + c1 * d2, b1 * c2 + d1 * d2,
        a1 * e2 + c1 * f2 + e1, b1 * e2 + d1 * f2 + f1 >>

\* C20: the walk of a page starts from the identity matrix and an empty
\* stack, and a transform operator with matrix N replaces the current matrix
\* M by (a1*a2+c1*b2, b1*a2+d1*b2, a1*c2+c1*d2, b1*c2+d1*d2, a1*e2+c1*f2+e1,
\* b1*e2+d1*f2+f1) and leaves the stack as it was.
C20_TransformFormula ==
  /\ []((epc = "ops" /\ j = 1) => (currentMatrix = << 1, 0, 0, 1, 0, 0 >> /\ transformStack = << >>))
  /\ [][(epc = "ops" /\ Op.fn = "transform" /\ Op.args # Absent) =>
          /\ currentMatrix' = StatedProduct(currentMatrix, Op.args[1])
          /\ transformStack' = transformStack]_vars

\* C20 witness: a transform has just been applied under a saved matrix that
\* is not the identity and does not commute with it.
C20_Witness ==
  /\ Walking
  /\ j >= 3
  /\ pdf[i].ops[1][j - 2].fn = "save"
  /\ pdf[i].ops[1][j - 1].fn = "transform" /\ pdf[i].ops[1][j - 1].args # Absent
  /\ transformStack # << >>
  /\ LET m == transformStack[Len(transformStack)]
         n == pdf[i].ops[1][j - 1].args[1]
     IN /\ m # << 1, 0, 0, 1, 0, 0 >>
        /\ currentMatrix = StatedProduct(m, n)
        /\ currentMatrix # StatedProduct(n, m)

\* ------------------------------------- claims on the graphics state

\* C21: the walk of every page starts from the identity matrix and an empty
\* stack, whatever the pages before it saved, restored or transformed; and a
\* step changes the matrix or the stack only when it creates them at the
\* start of a walk or interprets a save, restore or transform operator.
C21_StatePerPage ==
  /\ []((epc = "ops" /\ j = 1) => (currentMatrix = Identity /\ transformStack = << >>))
  /\ []((epc = "merge" /\ pdf[i].ops = Some(<< >>)) =>
          (currentMatrix = Identity /\ transformStack = << >>))
  /\ [][(currentMatrix' # currentMatrix \/ transformStack' # transformStack) =>
          \/ epc = "oplist"
          \/ epc = "ops" /\ Op.fn \in { "save", "restore", "transform" }]_vars

\* C21 witness: the walk of page 2 starts after page 1 ended its walk with
\* two saves open and a transformed matrix.
C21_Witness ==
  /\ epc = "ops" /\ j = 1 /\ i = 2
  /\ pdf[1].ops # Absent
  /\ \A n \in 1..Len(pdf[1].ops[1]) : ~Throws(pdf[1].ops[1][n])
  /\ CountOf(pdf[1].ops[1], "save") = 2
  /\ CountOf(pdf[1].ops[1], "restore") = 0
  /\ CountOf(pdf[1].ops[1], "transform") = 1
  /\ currentMatrix = Identity /\ transformStack = << >>

\* ------------------------------------- claims on the page sort and the merge

\* The array the sort is called on when the walk of the page is over.
Unsorted == pageTextItems \o pageImageItems

\* C22: in the sorted array of a page, for every item p placed before an
\* item q: p.y > q.y when the two Y differ by 5 or more, p.x <= q.x when they
\* differ by less than 5; and items that compare equal keep the order they
\* had before the sort.
C22_SortedPairs ==
  epc = "merge" =>
    LET sorted == sort(Unsorted) IN
      \A m, n \in 1..Len(sorted) :
        m < n =>
          LET p == sorted[m]
              q == sorted[n]
          IN /\ Abs(p.y - q.y) >= 5 * PT => p.y > q.y
             /\ Abs(p.y - q.y) < 5 * PT => p.x <= q.x
             /\ (Compare(p, q) = 0 /\ p # q) =>
                  \E a, b \in 1..Len(Unsorted) :
                    a < b /\ Unsorted[a] = p /\ Unsorted[b] = q

\* The merge condition as the claim words it, between the first item of a
\* run and the next item.
StatedMergeTest(first, next) ==
  /\ first.type = "text" /\ next.type = "text"
  /\ Abs(first.y - next.y) < 4 * PT
  /\ Abs(first.fontSize[1] - next.fontSize[1]) < 2 * PT
  /\ first.isBold = next.isBold
  /\ first.isItalic = next.isItalic

\* The sorted items cut into runs: an item joins the run when it passes the
\* test against the run's first item, and opens the next run otherwise.
RECURSIVE StatedRuns(_, _, _)
StatedRuns(rest, run, out) ==
  IF rest = << >> THEN Append(out, run)
  ELSE IF StatedMergeTest(run[1], Head(rest))
       THEN StatedRuns(Tail(rest), Append(run, Head(rest)), out)
       ELSE StatedRuns(Tail(rest), << Head(rest) >>, Append(out, run))

RunsOfPage(sorted) ==
  IF sorted = << >> THEN << >> ELSE StatedRuns(Tail(sorted), << Head(sorted) >>, << >>)

RECURSIVE JoinedText(_)
JoinedText(run) == IF run = << >> THEN << >> ELSE Head(run).text[1] \o JoinedText(Tail(run))

WithoutSpaces(text) == SelectSeq(text, LAMBDA c : c # " ")

\* The page that was finished last left its arrays in pageTextItems and
\* pageImageItems and its items at the end of allItems.
PageFinished == epc = "page" /\ i > 1

\* C23: the items a page adds to the list are, one for one and in order, the
\* runs of its sorted items under the stated merge condition: each keeps the
\* type, x, y, font size and style of the first item of its run, a run of one
\* item (every image among them) is passed on unchanged, and a merged text is
\* the texts of its run in sorted order, up to inserted spaces.
C23_MergeRuns ==
  PageFinished =>
    LET runs == RunsOfPage(sort(Unsorted))
        out == PageItems(i - 1)
    IN /\ Len(out) = Len(runs)
       /\ \A g \in 1..Len(runs) :
            LET first == runs[g][1] IN
              /\ out[g].type = first.type
              /\ out[g].x = first.x /\ out[g].y = first.y
              /\ out[g].fontSize = first.fontSize
              /\ out[g].isBold = first.isBold /\ out[g].isItalic = first.isItalic
              /\ Len(runs[g]) = 1 => out[g] = first
              /\ first.type = "image" => Len(runs[g]) = 1
              /\ first.type = "text" =>
                   WithoutSpaces(out[g].text[1]) = WithoutSpaces(JoinedText(runs[g]))

\* C23 witness: a page of three runs was finished with two of them merged,
\* and the third, which would pass the test against the second, was kept
\* apart because it fails the test against the first.
C23_Witness ==
  /\ PageFinished /\ i = 2
  /\ Len(Unsorted) = 3
  /\ Len(PageItems(1)) = 2
  /\ Len(RunsOfPage(sort(Unsorted))[1]) = 2
  /\ Mergeable(RunsOfPage(sort(Unsorted))[1][2], RunsOfPage(sort(Unsorted))[2][1])
  /\ ~Mergeable(RunsOfPage(sort(Unsorted))[1][1], RunsOfPage(sort(Unsorted))[2][1])

\* White space at the end and at the start of a text.
endsWithWhiteSpace(text) == text # << >> /\ text[Len(text)] \in JsWhiteSpace

startsWithWhiteSpace(text) == text # << >> /\ text[1] \in JsWhiteSpace

\* Whether a space goes between A and B by the claim's words; sizes are in
\* 1 / PT, so gap > 0.2 * fontSize is 5 * gap > fontSize.
StatedSeparator(A, B) ==
  LET gap == B.x - (A.x + WidthOr0(A)) IN
    IF /\ 5 * gap > A.fontSize[1]
       /\ ~endsWithWhiteSpace(A.text[1])
       /\ ~startsWithWhiteSpace(B.text[1])
    THEN << " " >> ELSE << >>

\* Whether a space goes between A and B by the code's test: the threshold
\* is a fifth of the font size, or 2 when the font size is 0, and only the
\* space character counts at the end of A and the start of B.
CodeSeparator(A, B) ==
  LET gap == B.x - (A.x + WidthOr0(A))
      size == IF A.fontSize[1] = 0 THEN 10 * PT ELSE A.fontSize[1]
  IN IF /\ 5 * gap > size
        /\ (A.text[1] = << >> \/ A.text[1][Len(A.text[1])] # " ")
        /\ (B.text[1] = << >> \/ B.text[1][1] # " ")
     THEN << " " >> ELSE << >>

\* A page of two sorted text items that were merged into one.
TwoMerged ==
  /\ PageFinished
  /\ Len(Unsorted) = 2
  /\ Len(PageItems(i - 1)) = 1
  /\ PageItems(i - 1)[1].type = "text"

\* C24 as stated: the text of two merged items is the first text, one space
\* exactly when gap > 0.2 * A.fontSize and neither A ends nor B starts with
\* white space, and the second text; for every font size, 0 included.
C24_SpaceAsStated ==
  TwoMerged =>
    LET A == sort(Unsorted)[1]
        B == sort(Unsorted)[2]
    IN PageItems(i - 1)[1].text[1] = A.text[1] \o StatedSeparator(A, B) \o B.text[1]

\* C24 amended: one space exactly when gap > 0.2 * A.fontSize (gap > 2 when
\* A.fontSize is 0) and neither A ends nor B starts with the space character.
C24_SpaceAsCoded ==
  TwoMerged =>
    LET A == sort(Unsorted)[1]
        B == sort(Unsorted)[2]
    IN PageItems(i - 1)[1].text[1] = A.text[1] \o CodeSeparator(A, B) \o B.text[1]

\* C24 witness: "t" followed by a tab, ending at x = 20, and "Hi" at x = 50
\* were merged with one space between them, the tab notwithstanding.
C24_Witness ==
  /\ TwoMerged
  /\ sort(Unsorted)[1].text[1] = << "t", "\t" >>
  /\ sort(Unsorted)[2].text[1] = << "H", "i" >>
  /\ PageItems(i - 1)[1].text[1] = << "t", "\t", " ", "H", "i" >>

\* ------------------------------------- claims on the paragraph break

\* A page of two text runs, both kept, was finished.
TwoTextsFinished ==
  PageFinished /\ Len(Unsorted) = 2 /\ Unsorted[1].type = "text" /\ Unsorted[2].type = "text"

\* C25: the anchor starts as the Y of the first item; an item more than 10
\* from the anchor closes the paragraph, becomes the anchor and opens the
\* next paragraph; any other item is appended to the paragraph being built
\* and leaves the anchor and the closed paragraphs as they are.  The three
\* tolerances are apart: two text runs of a page are sorted as one row when
\* less than 5 apart, merged only when less than 4 apart, and put into two
\* paragraphs only when more than 10 apart.
C25_BreakAtAnchor ==
  /\ []((apc = "body" /\ k = 1 /\ processedItems # << >>) =>
          currentY = Some(processedItems[1].y))
  /\ [][(apc = "body" /\ k <= Len(processedItems)) =>
          LET item == processedItems[k]
              far == Abs(item.y - currentY[1]) > 10 * PT
          IN /\ far =>
                  /\ currentY' = Some(item.y)
                  /\ bodyContent' = Flushed(bodyContent, currentParaContent)
                  /\ \A r \in 1..Len(currentParaContent') : currentParaContent'[r].item = k
             /\ ~far =>
                  /\ currentY' = currentY
                  /\ bodyContent' = bodyContent
                  /\ Len(currentParaContent') >= Len(currentParaContent)
                  /\ SubSeq(currentParaContent', 1, Len(currentParaContent)) = currentParaContent]_vars
  /\ [](TwoTextsFinished =>
          LET sorted == sort(Unsorted)
              d == Abs(Unsorted[1].y - Unsorted[2].y)
          IN /\ d < 5 * PT => sorted[1].x <= sorted[2].x
             /\ d >= 5 * PT => sorted[1].y > sorted[2].y
             /\ Len(PageItems(i - 1)) = 1 => d < 4 * PT
             /\ (d < 4 * PT /\ StatedMergeTest(sorted[1], sorted[2])) => Len(PageItems(i - 1)) = 1)
  /\ []((cpc = "assemble" /\ apc = "done" /\ Len(items) = 2) =>
          (Len(documentXml) = 2 <=> Abs(items[1].y - items[2].y) > 10 * PT))

\* C25 witness: two text runs of one style, 4 apart, came out of a page as
\* two items in the order of their x, the lower one first, and were written
\* into one paragraph.
C25_Witness ==
  /\ cpc = "assemble" /\ apc = "done"
  /\ Len(pdf) = 1 /\ Len(items) = 2
  /\ StatedMergeTest(items[1], [items[2] EXCEPT !.y = items[1].y])
  /\ items[2].y - items[1].y = 4 * PT
  /\ items[1].x < items[2].x
  /\ Len(documentXml) = 1 /\ Len(documentXml[1]) = 2

\* ------------------------------------- claims on the order of the stages

\* C26 as stated: the sort and the merge run once, after the walk of the
\* last page, over the items of all pages.
C26_OnceAfterLastPage == epc = "merge" => i = Len(pdf)

\* C26 amended: the sort and the merge run once for every page, when the walk
\* of that page is over and before the next page is read, over the items of
\* that page only, and the result is appended to the list; the assembler is
\* called once, when the last page is finished, on the list as it then is.
C26_OncePerPage ==
  /\ [](epc = "merge" => \A n \in 1..Len(Unsorted) : Unsorted[n].src = i)
  /\ [](cpc = "extract" => Cardinality({ t.src : t \in Elems(allItems) }) <= i - 1)
  /\ [][epc = "merge" =>
          /\ i' = i + 1 /\ epc' = "page"
          /\ allItems' = allItems \o MergedItems(sort(Unsorted))]_vars
  /\ [][(epc # "merge" /\ cpc # "start") => allItems' = allItems]_vars
  /\ [][items' # items =>
          /\ cpc = "extract" /\ i > Len(pdf)
          /\ cpc' = "assemble" /\ apc' = "map"
          /\ items' = allItems]_vars
  /\ [][cpc = "assemble" => apc' # "map" \/ apc = "map"]_vars

\* C26 witness: the assembler was called on the items of a document of two
\* pages, both with items, which a sort and a merge of the whole list would
\* have changed.
C26_Witness ==
  /\ cpc = "assemble" /\ apc = "map"
  /\ Len(pdf) = 2
  /\ PageItems(1) # << >> /\ PageItems(2) # << >>
  /\ MergedItems(sort(items)) # items

\* ------------------------------------- claims on the embedded images

\* The item numbers of all images that carry pixel data.
Embedded == EmbeddedBefore(Len(items))

\* The image relationships of the relationships part.
ImageRels == { n \in 1..Len(docRels) : docRels[n].type = "image" }

\* C27: in the written package every image item with pixel data has exactly
\* one image Relationship, one media file holding its data and one drawing
\* run; the target of the relationship is the path of that file under word/,
\* two such items never share a file, nothing else has a relationship, a file
\* or a drawing run, and the relationships part lists the styles relationship
\* from the moment it is written.
C27_OneRelFileRunPerImage ==
  /\ apc \in { "body", "done" } =>
       Cardinality({ n \in 1..Len(docRels) : docRels[n].type = "styles" }) = 1
  /\ apc = "done" =>
       /\ Cardinality(ImageRels) = Cardinality(Embedded)
       /\ Cardinality(zipMedia) = Cardinality(Embedded)
       /\ Cardinality(ImageRuns) = Cardinality(Embedded)
       /\ \A r \in ImageRuns : r.item \in Embedded
       /\ \A n \in Embedded :
            /\ Cardinality({ m \in ImageRels :
                               Some(docRels[m].id) = processedItems[n].relId }) = 1
            /\ Cardinality({ r \in ImageRuns :
                               r.item = n /\ Some(r.embed) = processedItems[n].relId }) = 1
            /\ \A m \in ImageRels :
                 Some(docRels[m].id) = processedItems[n].relId =>
                   Cardinality({ f \in zipMedia :
                                   /\ docRels[m].target = "media/" \o f.name
                                   /\ f.data = items[n].imageData[1] }) = 1
       /\ \A m1 \in ImageRels, m2 \in ImageRels :
            m1 # m2 => docRels[m1].target # docRels[m2].target

\* C27 witness: a package written from a list that holds the same image,
\* pixel data and extension, twice: two relationships, two files, two runs.
C27_Witness ==
  /\ apc = "done"
  /\ Len(items) >= 2
  /\ items[1] = items[2]
  /\ Embedded = { 1, 2 }
  /\ Cardinality(zipMedia) = 2
  /\ Cardinality(ImageRuns) = 2

\* ------------------------------------- claims on the order of processing

\* The image items a step of the walk adds at the end of pageImageItems.
Pushed == SubSeq(pageImageItems', Len(pageImageItems) + 1, Len(pageImageItems'))

\* C28: pages are processed one after the other and operators one at a time.
\* While page i is processed its arrays hold items of page i only and the
\* list holds items of earlier pages only; the text runs of a page are read
\* only at the top of the loop, which is reached only from the end of the
\* page before; a step of the walk goes to the next operator of the same
\* page or ends the walk; and the step over an image operator is the step
\* that pushes its item, or none, at the end of pageImageItems, with the x
\* and y of the matrix current at that operator.
C28_Sequential ==
  /\ [](epc \in { "oplist", "ops", "merge" } =>
          /\ \A t \in Elems(pageTextItems) \cup Elems(pageImageItems) : t.src = i
          /\ \A t \in Elems(allItems) : t.src < i)
  /\ [][i' # i => (epc = "merge" /\ i' = i + 1) \/ cpc = "start"]_vars
  /\ [][pageTextItems' # pageTextItems => epc = "page"]_vars
  /\ [][epc = "ops" =>
          /\ i' = i
          /\ \/ j' = j + 1 /\ epc' \in { "ops", "merge" }
             \/ Throws(Op) /\ epc' = "merge"]_vars
  /\ [][pageImageItems' # pageImageItems =>
          \/ epc = "page"
          \/ epc = "ops" /\ Op.fn \in PaintOps /\ ~Throws(Op)]_vars
  /\ [][(epc = "ops" /\ Op.fn \in PaintOps /\ ~Throws(Op)) =>
          /\ Len(pageImageItems') >= Len(pageImageItems)
          /\ pageImageItems' = pageImageItems \o Pushed
          /\ Unpaintable(Op) => Pushed = << >>
          /\ ~Unpaintable(Op) =>
               /\ Len(Pushed) = 1
               /\ Pushed[1].type = "image" /\ Pushed[1].src = i
               /\ Pushed[1].x = currentMatrix[5] /\ Pushed[1].y = currentMatrix[6]
               /\ Pushed[1].imageData = Some(ObjOf(Op).data)]_vars

\* C28 witness: the walk of a page is over with two images pushed at
\* different positions, the first under the first transform of the page and
\* the second under a later one.
C28_Witness ==
  /\ epc = "merge"
  /\ Len(pageImageItems) = 2
  /\ pdf[i].ops # Absent
  /\ pdf[i].ops[1][1].fn = "transform"
  /\ pdf[i].ops[1][3].fn = "transform"
  /\ pageImageItems[1].x = T1[5] /\ pageImageItems[1].y = T1[6]
  /\ pageImageItems[2].x # T1[5]

\* ------------------------------------- claims on the progress reports

\* C29: the percentages reported so far start at 10 and never go down; they
\* are between 10 and 50 while the extractor runs; 60 is reported only when
\* the extractor has returned after the last page, and 100 only when the
\* package is generated, as the last report; a conversion that the extractor
\* or the assembler rejected has not reported 100.
C29_ProgressOrder ==
  /\ progressLog # << >> => progressLog[1] = 10
  /\ \A n \in 1..(Len(progressLog) - 1) : progressLog[n] <= progressLog[n + 1]
  /\ (cpc = "extract" \/ epc = "rejected") =>
       \A n \in 1..Len(progressLog) : progressLog[n] >= 10 /\ progressLog[n] <= 50
  /\ cpc = "extract" => Len(progressLog) >= 1
  /\ cpc = "rejected" => \A n \in 1..Len(progressLog) : progressLog[n] # 100
  /\ (\E n \in 1..Len(progressLog) : progressLog[n] = 60) =>
       /\ cpc \in { "assemble", "done", "rejected" }
       /\ i > Len(pdf) /\ epc = "done"
       /\ items = allItems
  /\ (\E n \in 1..Len(progressLog) : progressLog[n] = 100) =>
       /\ cpc = "done" /\ apc = "done"
       /\ progressLog[Len(progressLog)] = 100
       /\ progressLog[Len(progressLog) - 1] = 60
  /\ cpc = "done" => progressLog[Len(progressLog)] = 100

\* C29 witness: a conversion of two pages is over and has reported 10, then
\* 30 and 50 for the pages, then 60 and 100.
C29_Witness ==
  /\ cpc = "done"
  /\ Len(pdf) = 2
  /\ progressLog = << 10, 30, 50, 60, 100 >>

\* ------------------------------------- claims on the server's files

\* C30: whatever the outcome of a request, there comes a moment from which
\* the upload directory holds none of its files, neither uploaded inputs nor
\* generated outputs.
C30_EventuallyDeleted == <>[](uploadDir = {})

====
